---- MODULE Spec2Model ----
(***************************************************************************)
(* A model of the day-indexed processing pipeline of knut: the Balancer    *)
(* (three variants live in the sources: Balancer.Process2, Balancer.Process *)
(* and journal.Balance), the Valuator stage and the AST assembler.         *)
(*                                                                         *)
(* Accounts are sequences of name segments, decimals are integers (all     *)
(* arithmetic of the stages is exact addition and subtraction), a position *)
(* map is a function whose DOMAIN is the set of keys present in the Go map, *)
(* and Go maps live in a heap of references so that sharing a map between  *)
(* a Day and a stage is visible.                                           *)
(***************************************************************************)
EXTENDS Integers, Sequences, FiniteSets, TLC

VARIABLES
    impl,       \* which Balancer variant runs: "Process2", "Process", "Balance"
    pc,         \* position of the Balancer in its per-Day handler
    err,        \* the error the Balancer returned, NoError while it runs
    day,        \* the Day being processed (*ast.Day)
    open,       \* accounts: the set of open accounts
    amounts,    \* reference of the running position map
    heap,       \* the position maps the Balancer made, by reference
    transactions, \* Process2's local slice of synthesised transactions
    resCh,      \* the Days pushed downstream, in order
    last,       \* the directive consumed by the latest step and its outcome
    ndir,       \* directives consumed so far in this run
    valuation,  \* Valuator.Valuation, NoValuation for nil
    vheap,      \* the value maps the Valuator made, by reference
    values,     \* reference of the Valuator's running value map
    vpc,        \* position of the Valuator goroutine
    valResCh,   \* the val.Days the Valuator pushed, in order
    valErrs,    \* number of errors the Valuator pushed to errCh
    filter,     \* ASTBuilder.Filter
    apc,        \* position of the Source2 goroutine
    journal,    \* the Journal: Days (date -> Day), min, max
    sorted,     \* the slice SortedDays returned
    srcCh,      \* the Days Source2 pushed, in order
    alast,      \* the directive Source2 read last and what it added
    read,       \* how many directives Source2 has read, and their dates
    xin,        \* a function under test (Accrual.Expand, NewPosting, ...): its arguments
    xout,       \* the function under test: what it returned
    style,      \* engine: "Parallel" (slice.Parallel) or "Process2" stages
    chans,      \* engine: the content of each channel, oldest first
    closed,     \* engine: which channels are closed
    workers,    \* engine: per goroutine its position, held Day and returned error
    gErr,       \* engine: the error the errgroup recorded
    ctxDone,    \* engine: ctx is cancelled
    res,        \* engine: the slice the sink appends to
    ret,        \* engine: the error the engine returned
    fvariant,   \* format: "execute" (part_003) or "run" (part_007)
    fails,      \* format: the file arguments whose formatFile fails
    disp,       \* format: the dispatching loop: position, arguments, slots taken at the end
    tasks,      \* format: the number of running tasks of good files, and per
                \* failing file the position of its task
    sema,       \* format: number of values in the channel sema
    coll,       \* format: the loop ranging over errCh, and the error it holds
    errChClosed,\* format: errCh is closed
    errors,     \* format: the variable errors (files whose error was appended)
    fctx,       \* format: the command's context is cancelled
    fret        \* format: what the command returned

balancerVars == <<impl, pc, err, day, open, amounts, transactions, resCh, last, ndir>>
valuatorVars == <<valuation, vheap, values, vpc, valResCh, valErrs>>
sourceVars == <<filter, apc, journal, sorted, srcCh, alast, read>>
expandVars == <<xin, xout>>
engineVars == <<style, chans, closed, workers, gErr, ctxDone, res, ret>>
formatVars == <<fvariant, fails, disp, tasks, sema, coll, errChClosed, errors, fctx, fret>>
auxVars == <<expandVars, engineVars, formatVars>>
downstream == <<valuatorVars, sourceVars, auxVars>>

vars == <<balancerVars, heap, valuatorVars, sourceVars, auxVars>>

---------------------------------------------------------------------------
(* Bounds of the model *)

MaxDays == 2
MaxDirectives == 4
MaxAmount == 1
MaxPostings == 1

---------------------------------------------------------------------------
(* Accounts and commodities *)

Cash == <<"Assets", "Cash">>
Salary == <<"Income", "Salary">>
Opening == <<"Equity", "Opening">>
Receivable == <<"Assets", "Receivable">>

JournalAccounts == {Cash, Salary, Opening}
Commodities == {"USD", "EUR"}
Descriptions == {"Pay"}

Type(a) ==
    CASE a[1] = "Assets" -> "ASSETS"
      [] a[1] = "Liabilities" -> "LIABILITIES"
      [] a[1] = "Equity" -> "EQUITY"
      [] a[1] = "Income" -> "INCOME"
      [] a[1] = "Expenses" -> "EXPENSES"

IsAL(a) == Type(a) \in {"ASSETS", "LIABILITIES"}
IsIE(a) == Type(a) \in {"INCOME", "EXPENSES"}

ValuationAccountFor(a) == <<"Equity", "Valuation">> \o Tail(a)

AllAccounts == JournalAccounts \cup {ValuationAccountFor(a) : a \in JournalAccounts}

---------------------------------------------------------------------------
(* Position maps (amounts.Amounts) *)

Range(seq) == {seq[i] : i \in 1..Len(seq)}

EmptyAmounts == [k \in {} |-> 0]

AccountCommodityKey(a, c) == <<a, c>>

Amount(m, k) == IF k \in DOMAIN m THEN m[k] ELSE 0

Add(m, k, x) == [p \in DOMAIN m \cup {k} |-> IF p = k THEN Amount(m, k) + x ELSE m[p]]

\* Book with the credit leg forgotten.
BookDebitOnly(m, credit, debit, x, c) == Add(m, AccountCommodityKey(debit, c), x)

Book(m, credit, debit, x, c) ==
    Add(Add(m, AccountCommodityKey(credit, c), -x), AccountCommodityKey(debit, c), x)

NoRef == 0

Clone(h, r) == Append(h, h[r])

---------------------------------------------------------------------------
(* Postings and transactions *)

\* NewPosting that negates a negative amount and keeps the accounts.
NewPostingNoSwap(crAccount, drAccount, commodity, amt) ==
    [Credit |-> crAccount, Debit |-> drAccount, Commodity |-> commodity,
     Amount |-> IF amt < 0 THEN -amt ELSE amt]

NewPosting(crAccount, drAccount, commodity, amt) ==
    IF amt < 0
    THEN [Credit |-> drAccount, Debit |-> crAccount, Commodity |-> commodity, Amount |-> -amt]
    ELSE [Credit |-> crAccount, Debit |-> drAccount, Commodity |-> commodity, Amount |-> amt]

NewPostingWithTargets(crAccount, drAccount, commodity, amt) ==
    NewPosting(crAccount, drAccount, commodity, amt)

---------------------------------------------------------------------------
(* Order on transactions (compare.Sort with CompareTransactions).  Go      *)
(* compares names as strings; the model ranks the names it uses in their   *)
(* string order.                                                           *)

AccountOrder ==
    << Cash, Receivable, Opening, ValuationAccountFor(Cash), ValuationAccountFor(Opening),
       ValuationAccountFor(Salary), Salary >>

AccountRank(a) == CHOOSE i \in 1..Len(AccountOrder) : AccountOrder[i] = a

CommodityRank(c) == IF c = "EUR" THEN 1 ELSE 2

ValuationAdjustment(c, a) == <<"Valuation adjustment for", c, "in", a>>

\* "Pay" < "Pay (accrual i/n)" < "Valuation adjustment for ..."
DescriptionKey(d) ==
    IF Len(d) = 1 THEN <<1, 0, 0>>
    ELSE IF d[2] = "accrual" THEN <<2, d[3], d[4]>>
    ELSE <<3, CommodityRank(d[2]), AccountRank(d[4])>>

PostingKey(p) ==
    IF "Credit" \in DOMAIN p
    THEN <<AccountRank(p.Credit), AccountRank(p.Debit), p.Amount, CommodityRank(p.Commodity)>>
    ELSE <<AccountRank(p.Account), AccountRank(p.Other), p.Amount, CommodityRank(p.Commodity)>>

RECURSIVE Flatten(_)
Flatten(ss) == IF ss = <<>> THEN <<>> ELSE Head(ss) \o Flatten(Tail(ss))

TransactionKey(t) ==
    DescriptionKey(t.Description) \o Flatten([i \in 1..Len(t.Postings) |-> PostingKey(t.Postings[i])])

RECURSIVE LexLess(_, _)
LexLess(k1, k2) ==
    IF k1 = <<>> THEN k2 # <<>>
    ELSE IF k2 = <<>> THEN FALSE
    ELSE IF Head(k1) # Head(k2) THEN Head(k1) < Head(k2)
    ELSE LexLess(Tail(k1), Tail(k2))

CompareTransactions(t1, t2) ==
    IF t1.Date # t2.Date THEN t1.Date < t2.Date
    ELSE LexLess(TransactionKey(t1), TransactionKey(t2))

RECURSIVE Insert(_, _)
Insert(t, ts) ==
    IF ts = <<>> THEN <<t>>
    ELSE IF CompareTransactions(t, Head(ts)) THEN <<t>> \o ts
    ELSE <<Head(ts)>> \o Insert(t, Tail(ts))

RECURSIVE Sort(_)
Sort(ts) == IF ts = <<>> THEN <<>> ELSE Insert(ts[Len(ts)], Sort(SubSeq(ts, 1, Len(ts) - 1)))

---------------------------------------------------------------------------
(* Errors.  The code returns messages; the model names them by the kinds   *)
(* of the error taxonomy: "is already open" is AccountAlreadyOpen, "is not *)
(* open" and "is already closed" are AccountNotOpen, "assertion failed" /  *)
(* "account has position" is AssertionFailed, "nonzero position" is        *)
(* NonzeroClose.                                                           *)

NoError == [kind |-> "none", account |-> <<>>, actual |-> 0]

Error(kind, account, actual) == [kind |-> kind, account |-> account, actual |-> actual]

---------------------------------------------------------------------------
(* The set of open accounts *)

Open(oa, a) ==
    IF a \in oa THEN [accounts |-> oa, ok |-> FALSE]
    ELSE [accounts |-> oa \cup {a}, ok |-> TRUE]

\* Close that reports success but leaves the account in the set.
CloseKeepsAccount(oa, a) ==
    IF a \notin oa THEN [accounts |-> oa, ok |-> FALSE]
    ELSE [accounts |-> oa, ok |-> TRUE]

Close(oa, a) ==
    IF a \notin oa THEN [accounts |-> oa, ok |-> FALSE]
    ELSE [accounts |-> oa \ {a}, ok |-> TRUE]

\* IsOpen without the EQUITY rule.
IsOpenNoEquity(oa, a) == a \in oa

IsOpen(oa, a) == a \in oa \/ Type(a) = "EQUITY"

IsOpenProcess(oa, a) == a \in oa

Has(oa, a) == a \in oa

AccountIsOpen(im, oa, a) ==
    CASE im = "Process2" -> IsOpen(oa, a)
      [] im = "Process" -> IsOpenProcess(oa, a)
      [] im = "Balance" -> Has(oa, a)

---------------------------------------------------------------------------
(* The Balancer's per-Day steps.  Each returns the position map it leaves  *)
(* behind and the error it returns (NoError when it returns nil).          *)

\* PostingBuilder.Build: one booking becomes the credit leg (-amount, -value)
\* and the debit leg (+amount, +value); a negative amount or value swaps the
\* accounts first.
PostingBuilderBuild(credit, debit, commodity, amt, value) ==
    LET neg == amt < 0 \/ value < 0
        cr == IF neg THEN debit ELSE credit
        dr == IF neg THEN credit ELSE debit
        x == IF neg THEN -amt ELSE amt
        v == IF neg THEN -value ELSE value
    IN << [Account |-> cr, Other |-> dr, Commodity |-> commodity, Amount |-> -x, Value |-> -v],
          [Account |-> dr, Other |-> cr, Commodity |-> commodity, Amount |-> x, Value |-> v] >>

\* processPostings with the check of the debit account forgotten.
RECURSIVE processPostingsCreditOnly(_, _, _, _)
processPostingsCreditOnly(im, oa, m, ps) ==
    IF ps = <<>> THEN [amounts |-> m, err |-> NoError]
    ELSE LET p == Head(ps) IN
        IF ~AccountIsOpen(im, oa, p.Credit)
        THEN [amounts |-> m, err |-> Error("AccountNotOpen", p.Credit, 0)]
        ELSE processPostingsCreditOnly(im, oa, Book(m, p.Credit, p.Debit, p.Amount, p.Commodity), Tail(ps))

RECURSIVE processPostings(_, _, _, _)
processPostings(im, oa, m, ps) ==
    IF ps = <<>> THEN [amounts |-> m, err |-> NoError]
    ELSE LET p == Head(ps) IN
        IF ~AccountIsOpen(im, oa, p.Credit)
        THEN [amounts |-> m, err |-> Error("AccountNotOpen", p.Credit, 0)]
        ELSE IF ~AccountIsOpen(im, oa, p.Debit)
        THEN [amounts |-> m, err |-> Error("AccountNotOpen", p.Debit, 0)]
        ELSE processPostings(im, oa, Book(m, p.Credit, p.Debit, p.Amount, p.Commodity), Tail(ps))

RECURSIVE processPostingsBalance(_, _, _)
processPostingsBalance(oa, m, ps) ==
    IF ps = <<>> THEN [amounts |-> m, err |-> NoError]
    ELSE LET p == Head(ps) IN
        IF ~Has(oa, p.Account)
        THEN [amounts |-> m, err |-> Error("AccountNotOpen", p.Account, 0)]
        ELSE processPostingsBalance(oa,
                IF IsAL(p.Account) THEN Add(m, AccountCommodityKey(p.Account, p.Commodity), p.Amount) ELSE m,
                Tail(ps))

\* processValue that books the asserted amount instead of the difference.
processValueNoDelta(im, oa, m, date, v) ==
    IF ~AccountIsOpen(im, oa, v.Account)
    THEN [amounts |-> m, err |-> Error("AccountNotOpen", v.Account, 0), trx |-> <<>>]
    ELSE LET valAcc == ValuationAccountFor(v.Account)
             posting == NewPostingWithTargets(valAcc, v.Account, v.Commodity, v.Amount)
         IN [amounts |-> Book(m, posting.Credit, posting.Debit, posting.Amount, posting.Commodity),
             err |-> NoError,
             trx |-> <<[Date |-> date,
                        Description |-> ValuationAdjustment(v.Commodity, v.Account),
                        Postings |-> <<posting>>]>>]

\* One value directive: the adjustment posting, the map after booking it and
\* the transaction that carries it.
processValue(im, oa, m, date, v) ==
    IF ~AccountIsOpen(im, oa, v.Account)
    THEN [amounts |-> m, err |-> Error("AccountNotOpen", v.Account, 0), trx |-> <<>>]
    ELSE LET valAcc == ValuationAccountFor(v.Account)
             posting == NewPostingWithTargets(valAcc, v.Account, v.Commodity,
                            v.Amount - Amount(m, AccountCommodityKey(v.Account, v.Commodity)))
         IN [amounts |-> Book(m, posting.Credit, posting.Debit, posting.Amount, posting.Commodity),
             err |-> NoError,
             trx |-> <<[Date |-> date,
                        Description |-> ValuationAdjustment(v.Commodity, v.Account),
                        Postings |-> <<posting>>]>>]

processValueBalance(oa, m, date, v) ==
    IF ~Has(oa, v.Account)
    THEN [amounts |-> m, err |-> Error("AccountNotOpen", v.Account, 0), trx |-> <<>>]
    ELSE LET valAcc == ValuationAccountFor(v.Account)
             amount == v.Amount - Amount(m, AccountCommodityKey(v.Account, v.Commodity))
             ps == PostingBuilderBuild(valAcc, v.Account, v.Commodity, amount, 0)
         IN [amounts |-> Add(m, AccountCommodityKey(v.Account, v.Commodity), amount),
             err |-> NoError,
             trx |-> <<[Date |-> date,
                        Description |-> ValuationAdjustment(v.Commodity, v.Account),
                        Postings |-> ps]>>]

\* processAssertion that reads a missing position as zero.
processAssertionMissingIsZero(im, oa, m, a) ==
    IF ~AccountIsOpen(im, oa, a.Account)
    THEN Error("AccountNotOpen", a.Account, 0)
    ELSE LET position == AccountCommodityKey(a.Account, a.Commodity) IN
        IF Amount(m, position) # a.Amount
        THEN Error("AssertionFailed", a.Account, Amount(m, position))
        ELSE NoError

\* processAssertion that compares nothing.
processAssertionUnchecked(im, oa, m, a) ==
    IF ~AccountIsOpen(im, oa, a.Account)
    THEN Error("AccountNotOpen", a.Account, 0)
    ELSE NoError

processAssertion(im, oa, m, a) ==
    IF ~AccountIsOpen(im, oa, a.Account)
    THEN Error("AccountNotOpen", a.Account, 0)
    ELSE LET position == AccountCommodityKey(a.Account, a.Commodity) IN
        IF position \notin DOMAIN m \/ m[position] # a.Amount
        THEN Error("AssertionFailed", a.Account, Amount(m, position))
        ELSE NoError

\* The positions of an account, and one closing.  Go ranges over the map in
\* an unspecified order: when some position is nonzero, any set of the zero
\* positions may have been deleted before the nonzero one is met.
PositionsOf(m, a) == {pos \in DOMAIN m : pos[1] = a}

DeleteAll(m, ks) == [p \in DOMAIN m \ ks |-> m[p]]

\* processClosing without the check for nonzero positions.
processClosingUnchecked(oa, m, c, deleted) ==
    LET r == Close(oa, c.Account) IN
    [amounts |-> DeleteAll(m, PositionsOf(m, c.Account)), accounts |-> r.accounts,
     err |-> IF r.ok THEN NoError ELSE Error("AccountNotOpen", c.Account, 0)]

\* processClosing that leaves the zero positions of the account in the map.
processClosingKeeping(oa, m, c, deleted) ==
    LET mine == PositionsOf(m, c.Account)
        nonzero == {pos \in mine : m[pos] # 0}
    IN IF nonzero # {}
       THEN [amounts |-> m, accounts |-> oa,
             err |-> Error("NonzeroClose", c.Account, 0)]
       ELSE LET r == Close(oa, c.Account) IN
            [amounts |-> m, accounts |-> r.accounts,
             err |-> IF r.ok THEN NoError ELSE Error("AccountNotOpen", c.Account, 0)]

processClosing(oa, m, c, deleted) ==
    LET mine == PositionsOf(m, c.Account)
        nonzero == {pos \in mine : m[pos] # 0}
    IN IF nonzero # {}
       THEN [amounts |-> DeleteAll(m, deleted), accounts |-> oa,
             err |-> Error("NonzeroClose", c.Account, 0)]
       ELSE LET r == Close(oa, c.Account) IN
            [amounts |-> DeleteAll(m, mine), accounts |-> r.accounts,
             err |-> IF r.ok THEN NoError ELSE Error("AccountNotOpen", c.Account, 0)]

---------------------------------------------------------------------------
(* The Balancer as a state machine.  A Day arrives with its directives in  *)
(* the five lists of ast.Day; the model draws the elements of each list    *)
(* one at a time, in the order the handler walks them.                     *)

Variants == {"Process2", "Process", "Balance"}

NewDay(date) ==
    [Date |-> date, Openings |-> <<>>, Transactions |-> <<>>, Values |-> <<>>,
     Assertions |-> <<>>, Closings |-> <<>>, Amounts |-> NoRef, Normalized |-> <<>>]

NoDay == NewDay(0)

\* The handler's order with the closings run before the transactions.
PhaseRankClosingsFirst(p) ==
    CASE p = "openings" -> 1
      [] p = "closings" -> 1
      [] p = "transactions" -> 2
      [] p = "values" -> 3
      [] p = "assertions" -> 4
      [] p = "valuated" -> 5
      [] OTHER -> 0

PhaseRank(p) ==
    CASE p = "openings" -> 1
      [] p = "transactions" -> 2
      [] p = "values" -> 3
      [] p = "assertions" -> 4
      [] p = "valuated" -> 5
      [] p = "closings" -> 6
      [] OTHER -> 0

InDay == pc \in {"openings", "transactions", "values", "assertions", "valuated", "closings"}

NoValuation == "none"

\* journal.Balance with a valuation commodity valuates the Day between its
\* assertions and its closings.
ValuationDone ==
    (impl = "Balance" /\ valuation # NoValuation) => pc \in {"valuated", "closings"}

\* processValues re-sorts the Day's transactions where the variant does so
\* (Process and Balance); Process2 leaves the order alone.
AfterValues(im, d, from) ==
    IF im \in {"Process", "Balance"} /\ PhaseRank(from) <= 3
    THEN [d EXCEPT !.Transactions = Sort(@)]
    ELSE d

\* The Day gets the running map itself.
SnapshotShared(h, r) == [heap |-> h, ref |-> r]

\* d.Amounts = amounts.Clone(): the Day gets a fresh map.
Snapshot(h, r) == [heap |-> Clone(h, r), ref |-> Len(h) + 1]

Bookings ==
    {b \in [Credit : JournalAccounts, Debit : JournalAccounts, Commodity : Commodities,
            Amount : 1..MaxAmount] : b.Credit # b.Debit}

BookingSeqs == UNION {[1..n -> Bookings] : n \in 1..MaxPostings}

ValueAmounts == (0 - 1)..MaxAmount

\* The transaction the parser builds from a description and its bookings.
InputTransaction(im, date, desc, bs) ==
    [Date |-> date, Description |-> <<desc>>,
     Postings |->
        IF im = "Balance"
        THEN Flatten([i \in 1..Len(bs) |->
                PostingBuilderBuild(bs[i].Credit, bs[i].Debit, bs[i].Commodity, bs[i].Amount, 0)])
        ELSE [i \in 1..Len(bs) |->
                NewPosting(bs[i].Credit, bs[i].Debit, bs[i].Commodity, bs[i].Amount)]]

BalancerInit ==
    /\ pc = "pop"
    /\ err = NoError
    /\ day = NoDay
    /\ open = {}
    /\ amounts = 1
    /\ transactions = <<>>
    /\ resCh = <<>>
    /\ last = [kind |-> "none"]
    /\ ndir = 0

\* No Valuator is wired behind the Balancer.
ValuatorOff ==
    /\ valuation = "none"
    /\ vheap = <<>>
    /\ values = NoRef
    /\ vpc = "off"
    /\ valResCh = <<>>
    /\ valErrs = 0

\* No assembler runs.
SourceOff ==
    /\ filter = [accounts |-> {}, commodities |-> {}]
    /\ apc = "off"
    /\ journal = [Days |-> <<>>, min |-> 0, max |-> 0]
    /\ sorted = <<>>
    /\ srcCh = <<>>
    /\ alast = [kind |-> "none"]
    /\ read = [n |-> 0, dates |-> {}]

\* Expand is not being applied.
ExpandOff ==
    /\ xin = [pc |-> "off"]
    /\ xout = <<>>

\* No engine runs.
EngineOff ==
    /\ style = "off"
    /\ chans = <<>>
    /\ closed = <<>>
    /\ workers = <<>>
    /\ gErr = [kind |-> "nil", stage |-> 0]
    /\ ctxDone = FALSE
    /\ res = <<>>
    /\ ret = [pc |-> "off", err |-> [kind |-> "nil", stage |-> 0]]

\* No format command runs.
FormatOff ==
    /\ fvariant = "off"
    /\ fails = {}
    /\ disp = [pc |-> "off"]
    /\ tasks = [good |-> 0, bad |-> <<>>]
    /\ sema = 0
    /\ coll = [pc |-> "off"]
    /\ errChClosed = FALSE
    /\ errors = <<>>
    /\ fctx = FALSE
    /\ fret = [pc |-> "off"]

AuxOff == ExpandOff /\ EngineOff /\ FormatOff

Init ==
    /\ impl \in Variants
    /\ BalancerInit
    /\ heap = <<EmptyAmounts>>
    /\ ValuatorOff
    /\ SourceOff
    /\ AuxOff

\* cpr.Pop delivers the next Day.
PopDay ==
    /\ pc = "pop"
    /\ Len(resCh) < MaxDays
    /\ pc' = "openings"
    /\ day' = NewDay(Len(resCh) + 1)
    /\ transactions' = <<>>
    /\ last' = [kind |-> "pop"]
    /\ UNCHANGED <<impl, err, open, amounts, heap, resCh, ndir>>
    /\ UNCHANGED downstream

\* The input channel is closed: the stage returns nil.
InputClosed ==
    /\ pc = "pop"
    /\ pc' = "done"
    /\ last' = [kind |-> "closed"]
    /\ UNCHANGED <<impl, err, day, open, amounts, heap, transactions, resCh, ndir>>
    /\ UNCHANGED downstream

\* ProcessOpening that pushes the Day although the opening failed.
ProcessOpeningPushing(a) ==
    /\ pc = "openings"
    /\ ndir < MaxDirectives
    /\ LET r == Open(open, a)
           d == [day EXCEPT !.Openings = Append(@, [Account |-> a])]
       IN
        /\ open' = r.accounts
        /\ err' = IF r.ok THEN NoError ELSE Error("AccountAlreadyOpen", a, 0)
        /\ pc' = IF r.ok THEN "openings" ELSE "failed"
        /\ last' = [kind |-> "open", account |-> a, ok |-> r.ok]
        /\ day' = d
        /\ resCh' = IF r.ok THEN resCh ELSE Append(resCh, d)
    /\ ndir' = ndir + 1
    /\ UNCHANGED <<impl, amounts, heap, transactions>>
    /\ UNCHANGED downstream

ProcessOpening(a) ==
    /\ pc = "openings"
    /\ ndir < MaxDirectives
    /\ LET r == Open(open, a) IN
        /\ open' = r.accounts
        /\ err' = IF r.ok THEN NoError ELSE Error("AccountAlreadyOpen", a, 0)
        /\ pc' = IF r.ok THEN "openings" ELSE "failed"
        /\ last' = [kind |-> "open", account |-> a, ok |-> r.ok]
    /\ day' = [day EXCEPT !.Openings = Append(@, [Account |-> a])]
    /\ ndir' = ndir + 1
    /\ UNCHANGED <<impl, amounts, heap, transactions, resCh>>
    /\ UNCHANGED downstream

ProcessTransaction(desc, bs) ==
    /\ InDay /\ PhaseRank(pc) <= 2
    /\ ndir < MaxDirectives
    /\ LET t == InputTransaction(impl, day.Date, desc, bs)
           r == IF impl = "Balance"
                THEN processPostingsBalance(open, heap[amounts], t.Postings)
                ELSE processPostings(impl, open, heap[amounts], t.Postings)
       IN
        /\ IF day.Transactions = <<>> THEN TRUE
           ELSE ~CompareTransactions(t, day.Transactions[Len(day.Transactions)])
        /\ heap' = [heap EXCEPT ![amounts] = r.amounts]
        /\ err' = r.err
        /\ pc' = IF r.err = NoError THEN "transactions" ELSE "failed"
        /\ day' = [day EXCEPT !.Transactions = Append(@, t)]
        /\ last' = [kind |-> "transaction", trx |-> t, ok |-> r.err = NoError]
    /\ ndir' = ndir + 1
    /\ UNCHANGED <<impl, open, amounts, transactions, resCh>>
    /\ UNCHANGED downstream

ProcessValue(a, c, x) ==
    /\ InDay /\ PhaseRank(pc) <= 3
    /\ ndir < MaxDirectives
    /\ LET v == [Account |-> a, Commodity |-> c, Amount |-> x]
           r == IF impl = "Balance"
                THEN processValueBalance(open, heap[amounts], day.Date, v)
                ELSE processValue(impl, open, heap[amounts], day.Date, v)
       IN
        /\ heap' = [heap EXCEPT ![amounts] = r.amounts]
        /\ err' = r.err
        /\ pc' = IF r.err = NoError THEN "values" ELSE "failed"
        /\ IF impl = "Process2"
           THEN /\ transactions' = transactions \o r.trx
                /\ day' = [day EXCEPT !.Values = Append(@, v)]
           ELSE /\ transactions' = transactions
                /\ day' = [day EXCEPT !.Values = Append(@, v), !.Transactions = @ \o r.trx]
        /\ last' = [kind |-> "value", value |-> v, old |-> Amount(heap[amounts], AccountCommodityKey(a, c)),
                    trx |-> r.trx, ok |-> r.err = NoError]
    /\ ndir' = ndir + 1
    /\ UNCHANGED <<impl, open, amounts, resCh>>
    /\ UNCHANGED downstream

ProcessAssertion(a, c, x) ==
    /\ InDay /\ PhaseRank(pc) <= 4
    /\ ndir < MaxDirectives
    /\ LET as == [Account |-> a, Commodity |-> c, Amount |-> x]
           e == processAssertion(impl, open, heap[amounts], as)
       IN
        /\ err' = e
        /\ pc' = IF e = NoError THEN "assertions" ELSE "failed"
        /\ day' = [AfterValues(impl, day, pc) EXCEPT !.Assertions = Append(@, as)]
        /\ last' = [kind |-> "assertion", assertion |-> as, ok |-> e = NoError]
    /\ ndir' = ndir + 1
    /\ UNCHANGED <<impl, open, amounts, heap, transactions, resCh>>
    /\ UNCHANGED downstream

ProcessClosing(a) ==
    /\ InDay
    /\ ValuationDone
    /\ ndir < MaxDirectives
    /\ LET c == [Account |-> a]
           zero == {pos \in PositionsOf(heap[amounts], a) : heap[amounts][pos] = 0}
       IN \E deleted \in SUBSET zero :
           LET r == processClosing(open, heap[amounts], c, deleted) IN
            /\ r.err = NoError => deleted = zero
            /\ heap' = [heap EXCEPT ![amounts] = r.amounts]
            /\ open' = r.accounts
            /\ err' = r.err
            /\ pc' = IF r.err = NoError THEN "closings" ELSE "failed"
            /\ day' = [AfterValues(impl, day, pc) EXCEPT !.Closings = Append(@, c)]
            /\ last' = [kind |-> "close", account |-> a, ok |-> r.err = NoError,
                        had |-> PositionsOf(heap[amounts], a)]
    /\ ndir' = ndir + 1
    /\ UNCHANGED <<impl, amounts, transactions, resCh>>
    /\ UNCHANGED downstream

\* The end of the handler: the synthesised transactions join the Day
\* (Process2), the Day gets its snapshot (Process2, Process) and goes
\* downstream.  journal.Balance attaches nothing and returns nil.
FinishDay ==
    /\ InDay
    /\ ValuationDone
    /\ LET d == AfterValues(impl, day, pc)
           s == Snapshot(heap, amounts)
       IN IF impl = "Balance"
          THEN /\ resCh' = Append(resCh, d)
               /\ heap' = heap
          ELSE /\ resCh' = Append(resCh,
                     [d EXCEPT !.Transactions = @ \o transactions, !.Amounts = s.ref])
               /\ heap' = s.heap
    /\ pc' = "pop"
    /\ day' = NoDay
    /\ transactions' = <<>>
    /\ last' = [kind |-> "push"]
    /\ UNCHANGED <<impl, err, open, amounts, ndir>>
    /\ UNCHANGED downstream

Next ==
    \/ PopDay
    \/ InputClosed
    \/ \E a \in JournalAccounts : ProcessOpening(a)
    \/ \E desc \in Descriptions, bs \in BookingSeqs : ProcessTransaction(desc, bs)
    \/ \E a \in JournalAccounts, c \in Commodities, x \in ValueAmounts : ProcessValue(a, c, x)
    \/ \E a \in JournalAccounts, c \in Commodities, x \in ValueAmounts : ProcessAssertion(a, c, x)
    \/ \E a \in JournalAccounts : ProcessClosing(a)
    \/ FinishDay

Spec == Init /\ [][Next]_vars

---------------------------------------------------------------------------
(* The Valuator stage (Valuator.ProcessStream), fed by Balancer.Process2.  *)
(* The price updater between the two stages attaches the Day's normalised  *)
(* prices; the model draws them when the Valuator takes the Day.           *)

MaxPrice == 2

Valuations == {NoValuation, "USD"}

\* The normalised prices of a Day: a price for some of the commodities
\* other than the valuation commodity.
PriceBooks == UNION {[S -> 1..MaxPrice] : S \in SUBSET (Commodities \ {"USD"})}

\* NormalizedPrices.Valuate: amount * price, NoPrice when the commodity has
\* no price and is not the valuation commodity.
Valuate(prices, valn, c, x) ==
    IF c = valn THEN [value |-> x, ok |-> TRUE]
    ELSE IF c \in DOMAIN prices THEN [value |-> x * prices[c], ok |-> TRUE]
    ELSE [value |-> 0, ok |-> FALSE]

\* The running price book never loses a commodity: the commodities priced
\* on the Days pushed so far (Prices of a val.Day, Normalized of a Day).
KnownPrices(days) ==
    UNION {DOMAIN (IF "Prices" \in DOMAIN days[i] THEN days[i].Prices ELSE days[i].Normalized) :
             i \in 1..Len(days)}

\* valuatePostings that books the amounts as they are.
RECURSIVE valuatePostingsUnvalued(_, _, _, _)
valuatePostingsUnvalued(valn, prices, m, ps) ==
    IF ps = <<>> THEN [values |-> m, postings |-> <<>>, errors |-> 0]
    ELSE LET p == Head(ps)
             rest == valuatePostingsUnvalued(valn, prices,
                        Book(m, p.Credit, p.Debit, p.Amount, p.Commodity), Tail(ps))
         IN [values |-> rest.values, postings |-> <<p>> \o rest.postings, errors |-> rest.errors]

\* The loop over the postings of one transaction.
RECURSIVE valuatePostings(_, _, _, _)
valuatePostings(valn, prices, m, ps) ==
    IF ps = <<>> THEN [values |-> m, postings |-> <<>>, errors |-> 0]
    ELSE LET p == Head(ps)
             r == IF valn # NoValuation /\ valn # p.Commodity
                  THEN Valuate(prices, valn, p.Commodity, p.Amount)
                  ELSE [value |-> p.Amount, ok |-> TRUE]
             posting == [p EXCEPT !.Amount = r.value]
             rest == valuatePostings(valn, prices,
                        Book(m, posting.Credit, posting.Debit, posting.Amount, posting.Commodity),
                        Tail(ps))
         IN [values |-> rest.values,
             postings |-> <<posting>> \o rest.postings,
             errors |-> rest.errors + (IF r.ok THEN 0 ELSE 1)]

\* valuateAndBookTransaction without the booking of the values.
valuateAndBookTransactionUnbooked(valn, prices, m, t) ==
    LET r == valuatePostings(valn, prices, m, t.Postings) IN
    [values |-> m, trx |-> [t EXCEPT !.Postings = r.postings], errors |-> r.errors]

valuateAndBookTransaction(valn, prices, m, t) ==
    LET r == valuatePostings(valn, prices, m, t.Postings) IN
    [values |-> r.values, trx |-> [t EXCEPT !.Postings = r.postings], errors |-> r.errors]

\* The loop of ProcessStream over day.Day.Transactions.
RECURSIVE valuateTransactions(_, _, _, _)
valuateTransactions(valn, prices, m, ts) ==
    IF ts = <<>> THEN [values |-> m, trx |-> <<>>, errors |-> 0]
    ELSE LET r == valuateAndBookTransaction(valn, prices, m, Head(ts))
             rest == valuateTransactions(valn, prices, r.values, Tail(ts))
         IN [values |-> rest.values, trx |-> <<r.trx>> \o rest.trx,
             errors |-> r.errors + rest.errors]

ValueAdjustment(c, a) == <<"Adjust value of", c, "in account", a>>

\* Valuated that skips the assets as well.
ValuatedLiabilities(valn, am) ==
    {pos \in DOMAIN am : pos[2] # valn /\ Type(pos[1]) = "LIABILITIES"}

\* The positions of day.Day.Amounts computeValuationTransactions does not skip.
Valuated(valn, am) == {pos \in DOMAIN am : pos[2] # valn /\ IsAL(pos[1])}

\* The orders in which a range over a Go map can visit the keys ks.
Orders(ks) ==
    {o \in [1..Cardinality(ks) -> ks] : \A i, j \in DOMAIN o : i # j => o[i] # o[j]}

\* computeValuationTransactions that compares the value with the amount
\* instead of the value booked so far.
RECURSIVE computeValuationTransactionsAgainstAmount(_, _, _, _, _, _)
computeValuationTransactionsAgainstAmount(valn, prices, am, m, date, order) ==
    IF valn = NoValuation \/ order = <<>>
    THEN [values |-> m, trx |-> <<>>, panicked |-> FALSE]
    ELSE LET pos == Head(order)
             v == Valuate(prices, valn, pos[2], am[pos])
         IN IF ~v.ok THEN [values |-> m, trx |-> <<>>, panicked |-> TRUE]
            ELSE LET diff == v.value - am[pos]
                     valAcc == ValuationAccountFor(pos[1])
                 IN IF diff = 0
                    THEN computeValuationTransactionsAgainstAmount(valn, prices, am, m, date,
                                                                   Tail(order))
                    ELSE LET rest == computeValuationTransactionsAgainstAmount(valn, prices, am,
                                         Book(m, valAcc, pos[1], diff, pos[2]), date, Tail(order))
                         IN [values |-> rest.values,
                             trx |-> <<[Date |-> date,
                                        Description |-> ValueAdjustment(pos[2], pos[1]),
                                        Postings |-> <<NewPosting(valAcc, pos[1], pos[2], diff)>>]>>
                                     \o rest.trx,
                             panicked |-> rest.panicked]

\* computeValuationTransactions over the positions in the order the map
\* yields them; a position without a price panics.
RECURSIVE computeValuationTransactions(_, _, _, _, _, _)
computeValuationTransactions(valn, prices, am, m, date, order) ==
    IF valn = NoValuation \/ order = <<>>
    THEN [values |-> m, trx |-> <<>>, panicked |-> FALSE]
    ELSE LET pos == Head(order)
             v == Valuate(prices, valn, pos[2], am[pos])
         IN IF ~v.ok THEN [values |-> m, trx |-> <<>>, panicked |-> TRUE]
            ELSE LET diff == v.value - Amount(m, pos)
                     valAcc == ValuationAccountFor(pos[1])
                 IN IF diff = 0
                    THEN computeValuationTransactions(valn, prices, am, m, date, Tail(order))
                    ELSE LET rest == computeValuationTransactions(valn, prices, am,
                                         Book(m, valAcc, pos[1], diff, pos[2]), date, Tail(order))
                         IN [values |-> rest.values,
                             trx |-> <<[Date |-> date,
                                        Description |-> ValueAdjustment(pos[2], pos[1]),
                                        Postings |-> <<NewPosting(valAcc, pos[1], pos[2], diff)>>]>>
                                     \o rest.trx,
                             panicked |-> rest.panicked]

\* journal.Balance, valuateTransactions: the loop over the postings of one
\* transaction.  A posting without a price ends the Day with the error; the
\* postings before it keep their values.
RECURSIVE valuatePostingsBalance(_, _, _, _)
valuatePostingsBalance(valn, prices, m, ps) ==
    IF ps = <<>> THEN [values |-> m, postings |-> <<>>, ok |-> TRUE]
    ELSE LET p == Head(ps)
             r == IF valn # p.Commodity
                  THEN Valuate(prices, valn, p.Commodity, p.Amount)
                  ELSE [value |-> p.Amount, ok |-> TRUE]
         IN IF ~r.ok THEN [values |-> m, postings |-> ps, ok |-> FALSE]
            ELSE LET posting == [p EXCEPT !.Value = r.value]
                     rest == valuatePostingsBalance(valn, prices,
                                IF IsAL(posting.Account)
                                THEN Add(m, AccountCommodityKey(posting.Account, posting.Commodity),
                                         posting.Value)
                                ELSE m,
                                Tail(ps))
                 IN [values |-> rest.values, postings |-> <<posting>> \o rest.postings,
                     ok |-> rest.ok]

RECURSIVE valuateTransactionsBalance(_, _, _, _)
valuateTransactionsBalance(valn, prices, m, ts) ==
    IF ts = <<>> THEN [values |-> m, trx |-> <<>>, ok |-> TRUE]
    ELSE LET r == valuatePostingsBalance(valn, prices, m, Head(ts).Postings)
             t == [Head(ts) EXCEPT !.Postings = r.postings]
         IN IF ~r.ok THEN [values |-> r.values, trx |-> <<t>> \o Tail(ts), ok |-> FALSE]
            ELSE LET rest == valuateTransactionsBalance(valn, prices, r.values, Tail(ts))
                 IN [values |-> rest.values, trx |-> <<t>> \o rest.trx, ok |-> rest.ok]

\* journal.Balance, valuateGains over the positions of amounts in the order
\* the map yields them; a position without a price ends the Day with an
\* error.
RECURSIVE valuateGains(_, _, _, _, _, _)
valuateGains(valn, prices, am, m, date, order) ==
    IF order = <<>> THEN [values |-> m, trx |-> <<>>, ok |-> TRUE]
    ELSE LET pos == Head(order)
             v == Valuate(prices, valn, pos[2], am[pos])
         IN IF ~v.ok THEN [values |-> m, trx |-> <<>>, ok |-> FALSE]
            ELSE LET gain == v.value - Amount(m, pos)
                     credit == ValuationAccountFor(pos[1])
                 IN IF gain = 0
                    THEN valuateGains(valn, prices, am, m, date, Tail(order))
                    ELSE LET rest == valuateGains(valn, prices, am,
                                         Add(Add(m, pos, gain),
                                             AccountCommodityKey(credit, pos[2]), 0 - gain),
                                         date, Tail(order))
                         IN [values |-> rest.values,
                             trx |-> <<[Date |-> date,
                                        Description |-> ValueAdjustment(pos[2], pos[1]),
                                        Postings |-> PostingBuilderBuild(credit, pos[1], pos[2],
                                                                         0, gain)]>>
                                     \o rest.trx,
                             ok |-> rest.ok]

\* journal.Balance with a valuation commodity: after the assertions the Day
\* (with the normalised prices ComputePrices attached) gets its postings
\* valuated and its gains booked.
BalanceValuate(prices) ==
    /\ impl = "Balance"
    /\ valuation # NoValuation
    /\ InDay /\ PhaseRank(pc) <= 4
    /\ KnownPrices(resCh) \subseteq DOMAIN prices
    /\ LET d == [AfterValues(impl, day, pc) EXCEPT !.Normalized = prices]
           r1 == valuateTransactionsBalance(valuation, prices, vheap[values], d.Transactions)
       IN IF ~r1.ok
          THEN /\ day' = [d EXCEPT !.Transactions = r1.trx]
               /\ vheap' = [vheap EXCEPT ![values] = r1.values]
               /\ pc' = "failed"
               /\ err' = Error("NoPrice", <<>>, 0)
          ELSE \E order \in Orders(Valuated(valuation, heap[amounts])) :
                LET r2 == valuateGains(valuation, prices, heap[amounts], r1.values,
                                       d.Date, order)
                IN /\ day' = [d EXCEPT !.Transactions = r1.trx \o r2.trx]
                   /\ vheap' = [vheap EXCEPT ![values] = r2.values]
                   /\ pc' = IF r2.ok THEN "valuated" ELSE "failed"
                   /\ err' = IF r2.ok THEN NoError ELSE Error("NoPrice", <<>>, 0)
    /\ last' = [kind |-> "valuate"]
    /\ UNCHANGED <<impl, open, amounts, heap, transactions, resCh, ndir>>
    /\ UNCHANGED <<valuation, values, vpc, valResCh, valErrs, sourceVars, auxVars>>

\* One iteration of the Valuator's loop: pop a Day, attach the running map,
\* book the transactions, adjust the valuations, replace the running map by
\* a clone and push the Day.
ValuatorProcessDay(prices) ==
    /\ vpc = "run"
    /\ Len(valResCh) < Len(resCh)
    /\ valuation = NoValuation => prices = <<>>
    /\ KnownPrices(valResCh) \subseteq DOMAIN prices
    /\ LET n == Len(valResCh) + 1
           d == resCh[n]
           am == IF d.Amounts = NoRef THEN EmptyAmounts ELSE heap[d.Amounts]
           r1 == valuateTransactions(valuation, prices, vheap[values], d.Transactions)
       IN /\ valErrs' = valErrs + r1.errors
          /\ \E order \in Orders(Valuated(valuation, am)) :
                LET r2 == computeValuationTransactions(valuation, prices, am, r1.values,
                                                       d.Date, order)
                    h == [vheap EXCEPT ![values] = r2.values]
                IN IF r2.panicked
                   THEN /\ vheap' = h
                        /\ vpc' = "panicked"
                        /\ UNCHANGED <<values, valResCh>>
                   ELSE /\ vheap' = Clone(h, values)
                        /\ values' = Len(h) + 1
                        /\ valResCh' = Append(valResCh,
                              [Date |-> d.Date, Day |-> n, Prices |-> prices,
                               Transactions |-> r1.trx \o r2.trx, Values |-> values])
                        /\ vpc' = "run"
    /\ UNCHANGED <<balancerVars, heap, auxVars, valuation, sourceVars>>

\* The input channel is closed, or the Balancer failed and the group's
\* context is cancelled: the goroutine returns.
ValuatorInputClosed ==
    /\ vpc = "run"
    /\ \/ pc = "done" /\ Len(valResCh) = Len(resCh)
       \/ pc = "failed"
    /\ vpc' = "done"
    /\ UNCHANGED <<balancerVars, heap, auxVars, valuation, vheap, values, valResCh, valErrs, sourceVars>>

InitValuator ==
    /\ impl \in {"Process2", "Balance"}
    /\ BalancerInit
    /\ heap = <<EmptyAmounts>>
    /\ valuation \in Valuations
    /\ impl = "Balance" => valuation # NoValuation
    /\ vheap = <<EmptyAmounts>>
    /\ values = 1
    /\ vpc = IF impl = "Process2" THEN "run" ELSE "off"
    /\ valResCh = <<>>
    /\ valErrs = 0
    /\ SourceOff
    /\ AuxOff

\* The journals of the pipeline: two accounts, no assertions (an assertion
\* changes nothing a later stage reads).
PipelineAccounts == {Cash, Opening}

PipelineBookingSeqs ==
    {bs \in BookingSeqs : \A i \in 1..Len(bs) : {bs[i].Credit, bs[i].Debit} \subseteq PipelineAccounts}

NextValuator ==
    \/ PopDay
    \/ InputClosed
    \/ \E a \in PipelineAccounts : ProcessOpening(a)
    \/ \E desc \in Descriptions, bs \in PipelineBookingSeqs : ProcessTransaction(desc, bs)
    \/ \E a \in PipelineAccounts, c \in Commodities, x \in ValueAmounts : ProcessValue(a, c, x)
    \/ \E a \in PipelineAccounts : ProcessClosing(a)
    \/ FinishDay
    \/ \E prices \in PriceBooks : BalanceValuate(prices)
    \/ \E prices \in PriceBooks : ValuatorProcessDay(prices)
    \/ ValuatorInputClosed

SpecValuator == InitValuator /\ [][NextValuator]_vars

---------------------------------------------------------------------------
(* The assembler (ASTBuilder.Source2 over Journal).  The parser delivers   *)
(* directives in any order of dates; the model draws them one at a time.   *)

MaxParsed == 3
SourceAmount == 3

Dates == 1..MaxDays

SourceAccounts == {Cash, Salary}

\* journal.Filter: the accounts and the commodities its regexes accept.
Filters ==
    { [accounts |-> AllAccounts \cup {Receivable}, commodities |-> Commodities],
      [accounts |-> {Salary}, commodities |-> Commodities],
      [accounts |-> AllAccounts \cup {Receivable}, commodities |-> {"USD"}] }

MatchAccount(f, a) == a \in f.accounts

MatchCommodity(f, c) == c \in f.commodities

\* A posting matches when its credit and its debit account match.
MatchesBothAccounts(p, b) ==
    (MatchAccount(b, p.Credit) /\ MatchAccount(b, p.Debit)) /\ MatchCommodity(b, p.Commodity)

Matches(p, b) ==
    (MatchAccount(b, p.Credit) \/ MatchAccount(b, p.Debit)) /\ MatchCommodity(b, p.Commodity)

\* decimal.QuoRem at the precision of the amounts: truncated division.
QuoRem(x, n) ==
    LET q == IF x >= 0 THEN x \div n ELSE 0 - ((0 - x) \div n) IN
    [quo |-> q, rem |-> x - q * n]

\* date.Periods for a daily interval: the end dates of the periods in [t0, t1].
Periods(t0, t1) == [i \in 1..(t1 - t0 + 1) |-> [End |-> t0 + i - 1]]

AccrualDescription(d, i, n) == <<d[1], "accrual", i, n>>

\* The switch of Expand with the legs of the AL/IE case exchanged.
ExpandAccountsLegsSwapped(a, posting) ==
    LET c == posting.Credit
        d == posting.Debit
    IN IF IsAL(c) /\ IsIE(d)
       THEN [crSingle |-> a.Account, drSingle |-> d, crMulti |-> c, drMulti |-> a.Account]
       ELSE IF IsIE(c) /\ IsAL(d)
       THEN [crSingle |-> a.Account, drSingle |-> d, crMulti |-> c, drMulti |-> a.Account]
       ELSE IF IsIE(c) /\ IsIE(d)
       THEN [crSingle |-> a.Account, drSingle |-> a.Account, crMulti |-> c, drMulti |-> d]
       ELSE [crSingle |-> c, drSingle |-> d, crMulti |-> a.Account, drMulti |-> a.Account]

\* The switch of Expand without its case for two IE legs.
ExpandAccountsWithoutBothIE(a, posting) ==
    LET c == posting.Credit
        d == posting.Debit
    IN IF IsAL(c) /\ IsIE(d)
       THEN [crSingle |-> c, drSingle |-> a.Account, crMulti |-> a.Account, drMulti |-> d]
       ELSE IF IsIE(c) /\ IsAL(d)
       THEN [crSingle |-> a.Account, drSingle |-> d, crMulti |-> c, drMulti |-> a.Account]
       ELSE [crSingle |-> c, drSingle |-> d, crMulti |-> a.Account, drMulti |-> a.Account]

\* The switch of Expand: the accounts of the transaction on the original
\* date (Single) and of the period transactions (Multi), all four the
\* accrual account unless a case sets them.
ExpandAccounts(a, posting) ==
    LET c == posting.Credit
        d == posting.Debit
    IN IF IsAL(c) /\ IsIE(d)
       THEN [crSingle |-> c, drSingle |-> a.Account, crMulti |-> a.Account, drMulti |-> d]
       ELSE IF IsIE(c) /\ IsAL(d)
       THEN [crSingle |-> a.Account, drSingle |-> d, crMulti |-> c, drMulti |-> a.Account]
       ELSE IF IsIE(c) /\ IsIE(d)
       THEN [crSingle |-> a.Account, drSingle |-> a.Account, crMulti |-> c, drMulti |-> d]
       ELSE [crSingle |-> c, drSingle |-> d, crMulti |-> a.Account, drMulti |-> a.Account]

\* The share with the remainder added in every period.
ShareWithRemainderEverywhere(qr, i) == qr.quo + qr.rem

\* The amount of period i (from 1): the quotient, plus the remainder in
\* the first period.
Share(qr, i) == IF i = 1 THEN qr.quo + qr.rem ELSE qr.quo

Expand(a, t) ==
    LET posting == t.Postings[1]
        acc == ExpandAccounts(a, posting)
        periods == Periods(a.T0, a.T1)
        qr == QuoRem(posting.Amount, Len(periods))
        multi == IF acc.crMulti # acc.drMulti
                 THEN [i \in 1..Len(periods) |->
                        [Date |-> periods[i].End,
                         Description |-> AccrualDescription(t.Description, i, Len(periods)),
                         Postings |-> <<NewPosting(acc.crMulti, acc.drMulti, posting.Commodity,
                                                   Share(qr, i))>>,
                         AddOns |-> <<>>]]
                 ELSE <<>>
        single == IF acc.crSingle # acc.drSingle
                  THEN <<[Date |-> t.Date, Description |-> t.Description,
                          Postings |-> <<NewPosting(acc.crSingle, acc.drSingle,
                                                    posting.Commodity, posting.Amount)>>,
                          AddOns |-> <<>>]>>
                  ELSE <<>>
    IN multi \o single

\* &Day{Date: d}
NewJournalDay(date) ==
    [Date |-> date, Prices |-> <<>>, Assertions |-> <<>>, Values |-> <<>>,
     Openings |-> <<>>, Transactions |-> <<>>, Closings |-> <<>>]

\* Journal.Day: the Day of the date, made and stored when there is none.
JournalDay(j, date) ==
    IF date \in DOMAIN j.Days THEN j
    ELSE [j EXCEPT !.Days = [d \in DOMAIN j.Days \cup {date} |->
                                IF d = date THEN NewJournalDay(date) ELSE j.Days[d]]]

AddOpen(j, o) == [JournalDay(j, o.Date) EXCEPT !.Days[o.Date].Openings = Append(@, o)]

AddPrice(j, pr) == [JournalDay(j, pr.Date) EXCEPT !.Days[pr.Date].Prices = Append(@, pr)]

AddTransaction(j, t) ==
    [JournalDay(j, t.Date) EXCEPT
        !.max = IF @ < t.Date THEN t.Date ELSE @,
        !.min = IF @ > t.Date THEN t.Date ELSE @,
        !.Days[t.Date].Transactions = Append(@, t)]

AddValue(j, v) == [JournalDay(j, v.Date) EXCEPT !.Days[v.Date].Values = Append(@, v)]

AddAssertion(j, a) == [JournalDay(j, a.Date) EXCEPT !.Days[a.Date].Assertions = Append(@, a)]

AddClose(j, c) == [JournalDay(j, c.Date) EXCEPT !.Days[c.Date].Closings = Append(@, c)]

RECURSIVE AddTransactions(_, _)
AddTransactions(j, ts) ==
    IF ts = <<>> THEN j ELSE AddTransactions(AddTransaction(j, Head(ts)), Tail(ts))

\* The Days in the order the map yields them, here descending by date.
RECURSIVE DaysUnsorted(_)
DaysUnsorted(ds) ==
    IF DOMAIN ds = {} THEN <<>>
    ELSE LET hi == CHOOSE d \in DOMAIN ds : \A e \in DOMAIN ds : e <= d IN
         <<ds[hi]>> \o DaysUnsorted([d \in DOMAIN ds \ {hi} |-> ds[d]])

\* compare.Sort(res, CompareDays): ascending by date.
RECURSIVE SortDays(_)
SortDays(ds) ==
    IF DOMAIN ds = {} THEN <<>>
    ELSE LET lo == CHOOSE d \in DOMAIN ds : \A e \in DOMAIN ds : d <= e IN
         <<ds[lo]>> \o SortDays([d \in DOMAIN ds \ {lo} |-> ds[d]])

\* SortedDays without the sort of the Days.
SortedDaysInMapOrder(j) ==
    DaysUnsorted([d \in DOMAIN j.Days |-> [j.Days[d] EXCEPT !.Transactions = Sort(@)]])

\* Journal.SortedDays: sorts each Day's transactions in place and returns
\* the Days by date.
SortedDays(j) ==
    SortDays([d \in DOMAIN j.Days |-> [j.Days[d] EXCEPT !.Transactions = Sort(@)]])

SourceBookings ==
    { [Credit |-> Salary, Debit |-> Cash, Commodity |-> "USD", Amount |-> SourceAmount],
      [Credit |-> Opening, Debit |-> Cash, Commodity |-> "EUR", Amount |-> SourceAmount] }

MaxSourcePostings == 2

SourcePostings ==
    UNION {[1..n -> {NewPosting(b.Credit, b.Debit, b.Commodity, b.Amount) : b \in SourceBookings}]
             : n \in 1..MaxSourcePostings}

Accruals == {[Account |-> Receivable, T0 |-> t0, T1 |-> t1] : t0 \in Dates, t1 \in Dates} 

\* A transaction carries no addon or, on a single posting, one accrual.
SourceAddOns(ps) ==
    {<<>>} \cup (IF Len(ps) = 1 THEN {<<a>> : a \in {b \in Accruals : b.T0 <= b.T1}} ELSE {})

InitSource ==
    /\ impl = "Process2"
    /\ BalancerInit
    /\ heap = <<EmptyAmounts>>
    /\ ValuatorOff
    /\ filter \in Filters
    /\ apc = "parsing"
    /\ journal = [Days |-> <<>>, min |-> MaxDays + 1, max |-> 0]
    /\ sorted = <<>>
    /\ srcCh = <<>>
    /\ alast = [kind |-> "none"]
    /\ read = [n |-> 0, dates |-> {}]
    /\ AuxOff

\* What every case of the switch shares: a directive was read.
Read(date) ==
    /\ apc = "parsing"
    /\ read.n < MaxParsed
    /\ read' = [n |-> read.n + 1, dates |-> read.dates \cup {date}]
    /\ UNCHANGED <<balancerVars, heap, auxVars, valuatorVars, filter, apc, sorted, srcCh>>

SourceOpen(date, a) ==
    /\ Read(date)
    /\ LET o == [Date |-> date, Account |-> a] IN
        /\ journal' = AddOpen(journal, o)
        /\ alast' = [kind |-> "Open", directive |-> o, added |-> <<o>>]

SourcePrice(date, c, x) ==
    /\ Read(date)
    /\ LET pr == [Date |-> date, Commodity |-> c, Price |-> x] IN
        /\ journal' = AddPrice(journal, pr)
        /\ alast' = [kind |-> "Price", directive |-> pr, added |-> <<pr>>]

\* The case *ast.Transaction without the break on an empty filtered list:
\* the transaction is then filed with the postings it came with.
FiledWithoutBreak(t, f) ==
    LET filtered == SelectSeq(t.Postings, LAMBDA q : Matches(q, f))
        kept == IF filtered = <<>> THEN t ELSE [t EXCEPT !.Postings = filtered]
    IN IF Len(t.AddOns) > 0
       THEN Flatten([i \in 1..Len(t.AddOns) |-> Expand(t.AddOns[i], kept)])
       ELSE <<kept>>

\* The case *ast.Transaction of Source2 under the filter f: the
\* transactions it files for t, none when no posting matches, the
\* expansions of every addon over the filtered postings when t has addons,
\* t with its filtered postings otherwise.
Filed(t, f) ==
    LET filtered == SelectSeq(t.Postings, LAMBDA q : Matches(q, f))
        kept == [t EXCEPT !.Postings = filtered]
    IN IF filtered = <<>> THEN <<>>
       ELSE IF Len(t.AddOns) > 0
       THEN Flatten([i \in 1..Len(t.AddOns) |-> Expand(t.AddOns[i], kept)])
       ELSE <<kept>>

SourceTransaction(date, desc, ps, addOns) ==
    /\ Read(date)
    /\ LET t == [Date |-> date, Description |-> <<desc>>, Postings |-> ps, AddOns |-> addOns]
           added == Filed(t, filter)
       IN /\ journal' = AddTransactions(journal, added)
          /\ alast' = [kind |-> "Transaction", directive |-> t, added |-> added]

SourceAssertion(date, a, c, x) ==
    /\ Read(date)
    /\ LET as == [Date |-> date, Account |-> a, Commodity |-> c, Amount |-> x]
           keep == MatchAccount(filter, a) /\ MatchCommodity(filter, c)
       IN /\ journal' = IF keep THEN AddAssertion(journal, as) ELSE journal
          /\ alast' = [kind |-> "Assertion", directive |-> as,
                       added |-> IF keep THEN <<as>> ELSE <<>>]

SourceValue(date, a, c, x) ==
    /\ Read(date)
    /\ LET v == [Date |-> date, Account |-> a, Commodity |-> c, Amount |-> x]
           keep == MatchAccount(filter, a) /\ MatchCommodity(filter, c)
       IN /\ journal' = IF keep THEN AddValue(journal, v) ELSE journal
          /\ alast' = [kind |-> "Value", directive |-> v,
                       added |-> IF keep THEN <<v>> ELSE <<>>]

SourceClose(date, a) ==
    /\ Read(date)
    /\ LET c == [Date |-> date, Account |-> a]
           keep == MatchAccount(filter, a)
       IN /\ journal' = IF keep THEN AddClose(journal, c) ELSE journal
          /\ alast' = [kind |-> "Close", directive |-> c,
                       added |-> IF keep THEN <<c>> ELSE <<>>]

\* An addon that is not an *ast.Accrual.
UnknownAddOn == [kind |-> "unknown"]

\* case *ast.Transaction for a transaction that carries an unknown addon:
\* when the filter leaves no posting the transaction is dropped before the
\* addons are looked at; otherwise the default case of the inner switch
\* panics.
SourceUnknownAddOn(date, desc, ps) ==
    /\ apc = "parsing"
    /\ read.n < MaxParsed
    /\ LET t == [Date |-> date, Description |-> <<desc>>, Postings |-> ps,
                 AddOns |-> <<UnknownAddOn>>]
           filtered == SelectSeq(ps, LAMBDA q : Matches(q, filter))
       IN /\ alast' = [kind |-> "Transaction", directive |-> t, added |-> <<>>]
          /\ IF filtered = <<>>
             THEN /\ read' = [n |-> read.n + 1, dates |-> read.dates \cup {date}]
                  /\ apc' = apc
             ELSE /\ read' = read
                  /\ apc' = "panicked"
    /\ UNCHANGED <<balancerVars, heap, auxVars, valuatorVars, filter, journal, sorted, srcCh>>

\* The default case of the switch over the directive: Source2 returns the
\* error "unknown: ..." and pushes nothing.
SourceUnknownDirective ==
    /\ apc = "parsing"
    /\ apc' = "failed"
    /\ alast' = [kind |-> "Unknown"]
    /\ UNCHANGED <<balancerVars, heap, auxVars, valuatorVars, filter, journal, sorted, srcCh, read>>

\* cpr.Get returns the parser's error, or the directive is of no known
\* kind: Source2 returns the error and pushes nothing.
SourceFails ==
    /\ apc = "parsing"
    /\ apc' = "failed"
    /\ UNCHANGED <<balancerVars, heap, auxVars, valuatorVars, filter, journal, sorted, srcCh, alast, read>>

\* The parser's channel is closed: the loop ends and SortedDays is taken.
SourceEOF ==
    /\ apc = "parsing"
    /\ sorted' = SortedDays(journal)
    /\ journal' = [journal EXCEPT !.Days =
                      [d \in DOMAIN journal.Days |-> [journal.Days[d] EXCEPT !.Transactions = Sort(@)]]]
    /\ apc' = IF sorted' = <<>> THEN "done" ELSE "emitting"
    /\ UNCHANGED <<balancerVars, heap, auxVars, valuatorVars, filter, srcCh, alast, read>>

\* cpr.Push of the next Day.
SourcePush ==
    /\ apc = "emitting"
    /\ srcCh' = Append(srcCh, sorted[Len(srcCh) + 1])
    /\ apc' = IF Len(srcCh') = Len(sorted) THEN "done" ELSE "emitting"
    /\ UNCHANGED <<balancerVars, heap, auxVars, valuatorVars, filter, journal, sorted, alast, read>>

\* cpr.Push returns the context's error.
SourceCancelled ==
    /\ apc = "emitting"
    /\ apc' = "cancelled"
    /\ UNCHANGED <<balancerVars, heap, auxVars, valuatorVars, filter, journal, sorted, srcCh, alast, read>>

NextSource ==
    \/ \E date \in Dates, a \in SourceAccounts : SourceOpen(date, a)
    \/ \E date \in Dates : SourcePrice(date, "EUR", 1)
    \/ \E date \in Dates, desc \in Descriptions, ps \in SourcePostings :
          \E addOns \in SourceAddOns(ps) : SourceTransaction(date, desc, ps, addOns)
    \/ \E date \in Dates, a \in SourceAccounts, c \in Commodities : SourceAssertion(date, a, c, 1)
    \/ \E date \in Dates, a \in SourceAccounts, c \in Commodities : SourceValue(date, a, c, 1)
    \/ \E date \in Dates, a \in SourceAccounts : SourceClose(date, a)
    \/ \E date \in Dates, desc \in Descriptions, ps \in SourcePostings :
          SourceUnknownAddOn(date, desc, ps)
    \/ SourceUnknownDirective
    \/ SourceFails
    \/ SourceEOF
    \/ SourcePush
    \/ SourceCancelled

SpecSource == InitSource /\ [][NextSource]_vars

---------------------------------------------------------------------------
(* Accrual.Expand as a function of its inputs: the accrual (account and    *)
(* period) and a one-posting transaction over accounts of every type.      *)
(* Amounts count tenths, the precision QuoRem is called with.              *)

MaxPeriods == 3
ExpandAmount == 5

Loan == <<"Liabilities", "Loan">>
Rent == <<"Expenses", "Rent">>

ExpandLegs == {Cash, Loan, Salary, Rent, Opening}
AccrualAccounts == {Receivable, Cash}
ExpandDates == 1..MaxPeriods

ExpandInputs ==
    {[pc |-> "call",
      accrual |-> [Account |-> acc, T0 |-> t0, T1 |-> t1],
      t |-> [Date |-> date, Description |-> <<"Pay">>,
             Postings |-> <<NewPosting(c, d, k, x)>>,
             AddOns |-> <<[Account |-> acc, T0 |-> t0, T1 |-> t1]>>]] :
        acc \in AccrualAccounts, t0 \in ExpandDates, t1 \in ExpandDates,
        date \in {1, MaxPeriods}, c \in ExpandLegs, d \in ExpandLegs, k \in {"USD"},
        x \in (0 - ExpandAmount)..ExpandAmount}

InitExpand ==
    /\ impl = "Process2"
    /\ BalancerInit
    /\ heap = <<EmptyAmounts>>
    /\ ValuatorOff
    /\ SourceOff
    /\ EngineOff
    /\ FormatOff
    /\ xin \in ExpandInputs
    /\ xout = <<>>

\* a.Expand(t) returns its transactions.
ExpandReturns ==
    /\ xin.pc = "call"
    /\ xin.accrual.T0 <= xin.accrual.T1
    /\ xin' = [xin EXCEPT !.pc = "returned"]
    /\ xout' = Expand(xin.accrual, xin.t)
    /\ UNCHANGED <<balancerVars, heap, valuatorVars, sourceVars, engineVars, formatVars>>

\* No period lies in [T0, T1]: the division by the number of periods
\* panics.
ExpandPanics ==
    /\ xin.pc = "call"
    /\ xin.accrual.T0 > xin.accrual.T1
    /\ xin' = [xin EXCEPT !.pc = "panicked"]
    /\ xout' = <<>>
    /\ UNCHANGED <<balancerVars, heap, valuatorVars, sourceVars, engineVars, formatVars>>

NextExpand == ExpandReturns \/ ExpandPanics

SpecExpand == InitExpand /\ [][NextExpand]_vars

---------------------------------------------------------------------------
(* The posting constructors as functions of their arguments, applied to    *)
(* signed amounts, and the booking of the posting they return on a         *)
(* position map.                                                           *)

MaxPostingAmount == 2

\* Nothing but the function under test runs.
OthersOff ==
    /\ impl = "Process2"
    /\ BalancerInit
    /\ heap = <<EmptyAmounts>>
    /\ ValuatorOff
    /\ SourceOff
    /\ EngineOff
    /\ FormatOff

PriorAmounts ==
    {EmptyAmounts} \cup
    {Add(EmptyAmounts, AccountCommodityKey(a, "USD"), x) : a \in {Cash, Salary}, x \in {-1, 2}}

PostingInputs ==
    {[pc |-> "call", crAccount |-> cr, drAccount |-> dr, commodity |-> k, amt |-> x, m |-> m] :
        cr \in JournalAccounts, dr \in JournalAccounts, k \in Commodities,
        x \in (0 - MaxPostingAmount)..MaxPostingAmount, m \in PriorAmounts}

InitPosting ==
    /\ OthersOff
    /\ xin \in PostingInputs
    /\ xout = <<>>

\* The constructor returns; the posting is booked on the map as
\* processTransactions and processValues do.
Booked(m, posting) == Book(m, posting.Credit, posting.Debit, posting.Amount, posting.Commodity)

NewPostingReturns ==
    /\ xin.pc = "call"
    /\ xin' = [xin EXCEPT !.pc = "NewPosting"]
    /\ LET posting == NewPosting(xin.crAccount, xin.drAccount, xin.commodity, xin.amt)
       IN xout' = [posting |-> posting, amounts |-> Booked(xin.m, posting)]
    /\ UNCHANGED <<balancerVars, heap, valuatorVars, sourceVars, engineVars, formatVars>>

NewPostingWithTargetsReturns ==
    /\ xin.pc = "call"
    /\ xin' = [xin EXCEPT !.pc = "NewPostingWithTargets"]
    /\ LET posting == NewPostingWithTargets(xin.crAccount, xin.drAccount, xin.commodity, xin.amt)
       IN xout' = [posting |-> posting, amounts |-> Booked(xin.m, posting)]
    /\ UNCHANGED <<balancerVars, heap, valuatorVars, sourceVars, engineVars, formatVars>>

NextPosting == NewPostingReturns \/ NewPostingWithTargetsReturns

SpecPosting == InitPosting /\ [][NextPosting]_vars

---------------------------------------------------------------------------
(* The assembler as a function of its input and its filter, applied to one *)
(* input under a filter and under a narrower one.  The input is a list of  *)
(* transactions as the ast types allow them: one or two postings, with or  *)
(* without an accrual.                                                     *)

MaxFiltered == 2

\* Filters by the accounts and commodities they accept, and the pairs
\* (f, g) where g accepts a subset of both.
FilterChoices ==
    {[accounts |-> as, commodities |-> cs] :
        as \in {AllAccounts \cup {Receivable}, {Salary}, {Cash}},
        cs \in {Commodities, {"USD"}, {"EUR"}}}

FilterPairs ==
    {fg \in FilterChoices \X FilterChoices :
        /\ fg[2].accounts \subseteq fg[1].accounts
        /\ fg[2].commodities \subseteq fg[1].commodities}

FilteredBookings ==
    { [Credit |-> Cash, Debit |-> Receivable, Commodity |-> "EUR", Amount |-> SourceAmount],
      [Credit |-> Salary, Debit |-> Cash, Commodity |-> "USD", Amount |-> SourceAmount],
      [Credit |-> Opening, Debit |-> Cash, Commodity |-> "EUR", Amount |-> SourceAmount] }

FilteredTransactions ==
    {[Date |-> 1, Description |-> <<"Pay">>, Postings |-> ps, AddOns |-> addOns] :
        ps \in UNION {[1..n -> FilteredBookings] : n \in 1..2},
        addOns \in {<<>>} \cup {<<[Account |-> Receivable, T0 |-> 1, T1 |-> t1]>> : t1 \in 1..MaxDays}}

FilterInputs ==
    {[pc |-> "call", ts |-> ts, F |-> fg[1], G |-> fg[2]] :
        ts \in UNION {[1..n -> FilteredTransactions] : n \in 1..MaxFiltered},
        fg \in FilterPairs}

InitFilter ==
    /\ OthersOff
    /\ xin \in FilterInputs
    /\ xout = [F |-> <<>>, G |-> <<>>]

\* The loop of Source2 over the transactions ts, then SortedDays: the Days
\* it pushes.
RECURSIVE Assembled(_, _, _)
Assembled(j, ts, f) ==
    IF ts = <<>> THEN SortedDays(j)
    ELSE Assembled(AddTransactions(j, Filed(Head(ts), f)), Tail(ts), f)

Source2(ts, f) == Assembled([Days |-> <<>>, min |-> MaxDays + 1, max |-> 0], ts, f)

\* Source2 runs over the input under the filter F.
Source2UnderF ==
    /\ xin.pc = "call"
    /\ xin' = [xin EXCEPT !.pc = "again"]
    /\ xout' = [xout EXCEPT !.F = Source2(xin.ts, xin.F)]
    /\ UNCHANGED <<balancerVars, heap, valuatorVars, sourceVars, engineVars, formatVars>>

\* Source2 runs over the same input under the narrower filter G.
Source2UnderG ==
    /\ xin.pc = "again"
    /\ xin' = [xin EXCEPT !.pc = "returned"]
    /\ xout' = [xout EXCEPT !.G = Source2(xin.ts, xin.G)]
    /\ UNCHANGED <<balancerVars, heap, valuatorVars, sourceVars, engineVars, formatVars>>

NextFilter == Source2UnderF \/ Source2UnderG

SpecFilter == InitFilter /\ [][NextFilter]_vars

---------------------------------------------------------------------------
(* One Day through the handlers of Balancer.Process2, as functions of the  *)
(* Day's five lists, applied to a Day and to the same Day with some of its *)
(* lists walked in the opposite order.  The run starts with no account     *)
(* open and an empty position map.                                         *)

MaxPermuted == 2

RECURSIVE processOpenings(_, _)
processOpenings(oa, os) ==
    IF os = <<>> THEN [accounts |-> oa, err |-> NoError]
    ELSE LET r == Open(oa, Head(os).Account) IN
         IF ~r.ok THEN [accounts |-> oa, err |-> Error("AccountAlreadyOpen", Head(os).Account, 0)]
         ELSE processOpenings(r.accounts, Tail(os))

\* processTransactions that returns after the first transaction.
processTransactionsFirstOnly(im, oa, m, ts) ==
    IF ts = <<>> THEN [amounts |-> m, err |-> NoError]
    ELSE processPostings(im, oa, m, Head(ts).Postings)

RECURSIVE processTransactions(_, _, _, _)
processTransactions(im, oa, m, ts) ==
    IF ts = <<>> THEN [amounts |-> m, err |-> NoError]
    ELSE LET r == processPostings(im, oa, m, Head(ts).Postings) IN
         IF r.err # NoError THEN r ELSE processTransactions(im, oa, r.amounts, Tail(ts))

RECURSIVE processValues(_, _, _, _, _)
processValues(im, oa, m, date, vs) ==
    IF vs = <<>> THEN [amounts |-> m, err |-> NoError, trx |-> <<>>]
    ELSE LET r == processValue(im, oa, m, date, Head(vs)) IN
         IF r.err # NoError THEN r
         ELSE LET rest == processValues(im, oa, r.amounts, date, Tail(vs)) IN
              [rest EXCEPT !.trx = r.trx \o @]

RECURSIVE processAssertions(_, _, _, _)
processAssertions(im, oa, m, as) ==
    IF as = <<>> THEN NoError
    ELSE LET e == processAssertion(im, oa, m, Head(as)) IN
         IF e # NoError THEN e ELSE processAssertions(im, oa, m, Tail(as))

RECURSIVE processClosings(_, _, _)
processClosings(oa, m, cs) ==
    IF cs = <<>> THEN [amounts |-> m, accounts |-> oa, err |-> NoError]
    ELSE LET r == processClosing(oa, m, Head(cs), {}) IN
         IF r.err # NoError THEN r ELSE processClosings(r.accounts, r.amounts, Tail(cs))

\* The body of the loop of Process2 for the first Day: the error it
\* returns and the position map it leaves.
Process2Day(d) ==
    LET o == processOpenings({}, d.Openings)
        t == processTransactions("Process2", o.accounts, EmptyAmounts, d.Transactions)
        v == processValues("Process2", o.accounts, t.amounts, d.Date, d.Values)
        a == processAssertions("Process2", o.accounts, v.amounts, d.Assertions)
        c == processClosings(o.accounts, v.amounts, d.Closings)
    IN IF o.err # NoError THEN [err |-> o.err, amounts |-> EmptyAmounts]
       ELSE IF t.err # NoError THEN [err |-> t.err, amounts |-> t.amounts]
       ELSE IF v.err # NoError THEN [err |-> v.err, amounts |-> v.amounts]
       ELSE IF a # NoError THEN [err |-> a, amounts |-> v.amounts]
       ELSE [err |-> c.err, amounts |-> c.amounts]

Reverse(seq) == [i \in 1..Len(seq) |-> seq[Len(seq) + 1 - i]]

UpTo(S, n) == UNION {[1..k -> S] : k \in 0..n}

PermutedLists == {"Openings", "Transactions", "Values", "Closings"}

\* The Day with the lists named in flips walked backwards.
Permuted(d, flips) ==
    [d EXCEPT !.Openings = IF "Openings" \in flips THEN Reverse(@) ELSE @,
              !.Transactions = IF "Transactions" \in flips THEN Reverse(@) ELSE @,
              !.Values = IF "Values" \in flips THEN Reverse(@) ELSE @,
              !.Closings = IF "Closings" \in flips THEN Reverse(@) ELSE @]

PermutedBookings ==
    { [Credit |-> Salary, Debit |-> Cash, Commodity |-> "USD", Amount |-> 1],
      [Credit |-> Opening, Debit |-> Cash, Commodity |-> "USD", Amount |-> MaxPermuted],
      [Credit |-> Cash, Debit |-> Salary, Commodity |-> "USD", Amount |-> 1] }

PermutedValues ==
    { [Account |-> Cash, Commodity |-> "USD", Amount |-> 1],
      [Account |-> Cash, Commodity |-> "USD", Amount |-> MaxPermuted],
      [Account |-> Cash, Commodity |-> "EUR", Amount |-> 1],
      [Account |-> ValuationAccountFor(Cash), Commodity |-> "USD", Amount |-> 0],
      [Account |-> Salary, Commodity |-> "USD", Amount |-> 0] }

PermutedDays ==
    {[Date |-> 1, Openings |-> os, Transactions |-> ts, Values |-> vs, Assertions |-> as,
      Closings |-> cs] :
        os \in {<<[Account |-> Cash]>>, <<[Account |-> Cash], [Account |-> Salary]>>},
        ts \in UpTo({[Date |-> 1, Description |-> <<"Pay">>,
                      Postings |-> <<NewPosting(b.Credit, b.Debit, b.Commodity, b.Amount)>>] :
                        b \in PermutedBookings}, MaxPermuted),
        vs \in UpTo(PermutedValues, MaxPermuted),
        as \in UpTo({[Account |-> Cash, Commodity |-> "USD", Amount |-> x] : x \in 1..MaxPermuted}, 1),
        cs \in {<<>>, <<[Account |-> Salary]>>, <<[Account |-> Salary], [Account |-> Cash]>>}}

InitPermute ==
    /\ OthersOff
    /\ xin \in {[pc |-> "call", d |-> d, flips |-> flips] :
                    d \in PermutedDays, flips \in SUBSET PermutedLists}
    /\ xout = [first |-> [err |-> NoError, amounts |-> EmptyAmounts],
               second |-> [err |-> NoError, amounts |-> EmptyAmounts]]

\* The run over the Day as given.
Process2Runs ==
    /\ xin.pc = "call"
    /\ xin' = [xin EXCEPT !.pc = "again"]
    /\ xout' = [xout EXCEPT !.first = Process2Day(xin.d)]
    /\ UNCHANGED <<balancerVars, heap, valuatorVars, sourceVars, engineVars, formatVars>>

\* The run over the Day with its lists permuted.
Process2Reruns ==
    /\ xin.pc = "again"
    /\ xin' = [xin EXCEPT !.pc = "returned"]
    /\ xout' = [xout EXCEPT !.second = Process2Day(Permuted(xin.d, xin.flips))]
    /\ UNCHANGED <<balancerVars, heap, valuatorVars, sourceVars, engineVars, formatVars>>

NextPermute == Process2Runs \/ Process2Reruns

SpecPermute == InitPermute /\ [][NextPermute]_vars

---------------------------------------------------------------------------
(* format.Format: the rewriting of a source text.  The text is a sequence  *)
(* of runes, a directive carries its span [Start, End) in runes from 0 and *)
(* the text its WriteTo writes.  The channel delivers the directives in    *)
(* source order and then io.EOF or another error, or is closed.            *)

MaxText == 4
MaxSpans == 2

Runes == {"a", " ", "\n"}

Texts == UNION {[1..n -> Runes] : n \in 0..MaxText}

\* What the directive's WriteTo writes for the source text of a directive:
\* the text without its blanks.
WriteTo(text) == SelectSeq(text, LAMBDA r : r # " ")

\* The spans [st, en) of a text from position from on that are not empty
\* and start at a rune that is not white space.
SpansFrom(text, from) ==
    {se \in (from..(Len(text) - 1)) \X (1..Len(text)) :
        se[1] < se[2] /\ text[se[1] + 1] = "a"}

\* The directives over a text: at most n of them, in source order, their
\* spans not overlapping.
RECURSIVE DirectivesFrom(_, _, _)
DirectivesFrom(text, from, n) ==
    IF n = 0 THEN {<<>>}
    ELSE {<<>>} \cup
         UNION {{<<[Start |-> se[1], End |-> se[2],
                    Text |-> WriteTo(SubSeq(text, se[1] + 1, se[2]))]>> \o rest :
                    rest \in DirectivesFrom(text, se[2], n - 1)} :
                se \in SpansFrom(text, from)}

Endings == {"EOF", "error", "closed"}

FormatTextInputs ==
    UNION {{[pc |-> "range", src |-> text, ch |-> ds, ending |-> e, srcPos |-> 0, read |-> 0] :
               ds \in DirectivesFrom(text, 0, MaxSpans), e \in Endings} : text \in Texts}

InitFormatText ==
    /\ OthersOff
    /\ xin \in FormatTextInputs
    /\ xout = [dest |-> <<>>, err |-> "nil", ds |-> <<>>]

\* case directive: the text from srcPos to the start of the span is copied
\* from the reader, the span is read and dropped, the directive is written.
FormatDirective ==
    /\ xin.pc = "range"
    /\ xin.ch # <<>>
    /\ LET d == Head(xin.ch)
           copied == IF d.Start > xin.srcPos THEN d.Start - xin.srcPos ELSE 0
           skipped == d.End - d.Start
       IN /\ xin.read + copied + skipped <= Len(xin.src)
          /\ xin' = [xin EXCEPT !.ch = Tail(@), !.srcPos = d.End,
                                !.read = @ + copied + skipped]
          /\ xout' = [xout EXCEPT
                        !.dest = @ \o SubSeq(xin.src, xin.read + 1, xin.read + copied) \o d.Text,
                        !.ds = Append(@, d)]
    /\ UNCHANGED <<balancerVars, heap, valuatorVars, sourceVars, engineVars, formatVars>>

\* case error with io.EOF: a newline is written and Format returns nil.
FormatEOF ==
    /\ xin.pc = "range"
    /\ xin.ch = <<>>
    /\ xin.ending = "EOF"
    /\ xin' = [xin EXCEPT !.pc = "returned"]
    /\ xout' = [xout EXCEPT !.dest = Append(@, "\n")]
    /\ UNCHANGED <<balancerVars, heap, valuatorVars, sourceVars, engineVars, formatVars>>

\* case error with another error: Format returns it.
FormatError ==
    /\ xin.pc = "range"
    /\ xin.ch = <<>>
    /\ xin.ending = "error"
    /\ xin' = [xin EXCEPT !.pc = "returned"]
    /\ xout' = [xout EXCEPT !.err = "error"]
    /\ UNCHANGED <<balancerVars, heap, valuatorVars, sourceVars, engineVars, formatVars>>

\* The channel is closed: the range ends and Format returns nil.
FormatChannelClosed ==
    /\ xin.pc = "range"
    /\ xin.ch = <<>>
    /\ xin.ending = "closed"
    /\ xin' = [xin EXCEPT !.pc = "returned"]
    /\ xout' = xout
    /\ UNCHANGED <<balancerVars, heap, valuatorVars, sourceVars, engineVars, formatVars>>

NextFormatText == FormatDirective \/ FormatEOF \/ FormatError \/ FormatChannelClosed

SpecFormatText == InitFormatText /\ [][NextFormatText]_vars

---------------------------------------------------------------------------
(* formatFile: the target and its temp file.  The two versions (the one    *)
(* behind execute, which closes the temp file and replaces the target with *)
(* atomic.ReplaceFile, and the one behind run, which never closes it and   *)
(* calls os.Rename) walk the same steps; every call to the operating       *)
(* system or to Format may fail, in any combination.                       *)

FormatFileVersions == {"execute", "run"}

FormatFileCalls ==
    {"readDirectives", "Open", "TempFile", "Format", "Flush", "srcFile.Close",
     "tmpDestFile.Close", "Rename"}

InitFormatFile ==
    /\ OthersOff
    /\ xin \in {[pc |-> "readDirectives", version |-> v, failing |-> f] :
                    v \in FormatFileVersions,
                    f \in SUBSET FormatFileCalls}
    /\ xout = [target |-> "original", temp |-> "none", dir |-> "none", srcOpen |-> FALSE,
               tmpOpen |-> FALSE, formatted |-> FALSE, err |-> {}]

ReturnError(calls) ==
    /\ xin' = [xin EXCEPT !.pc = "returned"]
    /\ xout' = [xout EXCEPT !.err = @ \cup calls]

\* readDirectives / parser.ParseOneFile.
ReadDirectives ==
    /\ xin.pc = "readDirectives"
    /\ IF "readDirectives" \in xin.failing
       THEN ReturnError({"readDirectives"})
       ELSE xin' = [xin EXCEPT !.pc = "Open"] /\ xout' = xout
    /\ UNCHANGED <<balancerVars, heap, valuatorVars, sourceVars, engineVars, formatVars>>

\* os.Open(target).
OpenTarget ==
    /\ xin.pc = "Open"
    /\ IF "Open" \in xin.failing
       THEN ReturnError({"Open"})
       ELSE xin' = [xin EXCEPT !.pc = "TempFile"] /\ xout' = [xout EXCEPT !.srcOpen = TRUE]
    /\ UNCHANGED <<balancerVars, heap, valuatorVars, sourceVars, engineVars, formatVars>>

\* ioutil.TempFile(path.Dir(target), ...): on failure the first version
\* closes the source file, the second returns at once.
TempFile ==
    /\ xin.pc = "TempFile"
    /\ IF "TempFile" \in xin.failing
       THEN /\ xin' = [xin EXCEPT !.pc = "returned"]
            /\ xout' = [xout EXCEPT
                          !.err = IF xin.version = "execute"
                                  THEN {"TempFile"} \cup (xin.failing \cap {"srcFile.Close"})
                                  ELSE {"TempFile"},
                          !.srcOpen = xin.version # "execute"]
       ELSE /\ xin' = [xin EXCEPT !.pc = "Format"]
            /\ xout' = [xout EXCEPT !.temp = "incomplete", !.dir = "path.Dir(target)",
                                    !.tmpOpen = TRUE]
    /\ UNCHANGED <<balancerVars, heap, valuatorVars, sourceVars, engineVars, formatVars>>

\* format.Format into the buffered writer over the temp file, which also
\* fails when the text does not parse (second version).
FormatTemp ==
    /\ xin.pc = "Format"
    /\ xin' = [xin EXCEPT !.pc = "Combine"]
    /\ xout' = [xout EXCEPT !.formatted = "Format" \notin xin.failing,
                            !.err = xin.failing \cap {"Format"}]
    /\ UNCHANGED <<balancerVars, heap, valuatorVars, sourceVars, engineVars, formatVars>>

\* multierr.Combine(err, srcFile.Close(), dest.Flush(), tmpDestFile.Close())
\* in the first version, multierr.Combine(err, dest.Flush(), srcFile.Close())
\* in the second: all calls are made, the temp file is complete when
\* Format and Flush succeeded.
Combine ==
    /\ xin.pc = "Combine"
    /\ LET calls == IF xin.version = "execute"
                    THEN {"srcFile.Close", "Flush", "tmpDestFile.Close"}
                    ELSE {"Flush", "srcFile.Close"}
           errs == xout.err \cup (xin.failing \cap calls)
       IN /\ xout' = [xout EXCEPT
                        !.err = errs,
                        !.srcOpen = FALSE,
                        !.tmpOpen = xin.version # "execute",
                        !.temp = IF xout.formatted /\ "Flush" \notin xin.failing
                                 THEN "complete" ELSE "incomplete"]
          /\ xin' = [xin EXCEPT !.pc = IF errs # {} THEN "Remove" ELSE "Rename"]
    /\ UNCHANGED <<balancerVars, heap, valuatorVars, sourceVars, engineVars, formatVars>>

\* The error path that returns without os.Remove.
RemoveForgotten ==
    /\ xin.pc = "Remove"
    /\ xin' = [xin EXCEPT !.pc = "returned"]
    /\ xout' = xout
    /\ UNCHANGED <<balancerVars, heap, valuatorVars, sourceVars, engineVars, formatVars>>

\* return multierr.Append(err, os.Remove(tmpfile.Name())).
Remove ==
    /\ xin.pc = "Remove"
    /\ xin' = [xin EXCEPT !.pc = "returned"]
    /\ xout' = [xout EXCEPT !.temp = "none"]
    /\ UNCHANGED <<balancerVars, heap, valuatorVars, sourceVars, engineVars, formatVars>>

\* atomic.ReplaceFile(tmpDestFile.Name(), target) / os.Rename(tmpfile.Name(),
\* target): the temp file takes the target's name, or the call fails and
\* both files stay.
ReplaceFile ==
    /\ xin.pc = "Rename"
    /\ xin' = [xin EXCEPT !.pc = "returned"]
    /\ xout' = IF "Rename" \in xin.failing
               THEN [xout EXCEPT !.err = {"Rename"}]
               ELSE [xout EXCEPT !.target = "formatted", !.temp = "none"]
    /\ UNCHANGED <<balancerVars, heap, valuatorVars, sourceVars, engineVars, formatVars>>

NextFormatFile ==
    \/ ReadDirectives
    \/ OpenTarget
    \/ TempFile
    \/ FormatTemp
    \/ Combine
    \/ Remove
    \/ ReplaceFile

SpecFormatFile == InitFormatFile /\ [][NextFormatFile]_vars

---------------------------------------------------------------------------
(* journal.ComputePrices: the function it returns keeps one price book    *)
(* (prc) and the latest normalisation (previous) across the Days it is    *)
(* called with.  Prices.Insert and Prices.Normalize follow the            *)
(* specification's price graph; the price directives of the inputs all    *)
(* point towards the valuation commodity, so that a normalised price is a *)
(* product of integer prices.                                             *)

NumPriceDays == 3
MaxDayPrices == 2

\* A nil NormalizedPrices.
NoPrices == [nil |-> TRUE]

NoBook == <<>>

PriceEdges == {<<"EUR", "USD">>, <<"CHF", "EUR">>, <<"CHF", "USD">>}

PriceDirectives ==
    {[Commodity |-> e[1], Target |-> e[2], Price |-> x] : e \in PriceEdges, x \in 1..MaxPrice}

\* Prices.Insert(commodity, price, target): the edge commodity -> target
\* gets the weight price.
PricesInsert(book, p) ==
    [e \in DOMAIN book \cup {<<p.Commodity, p.Target>>} |->
        IF e = <<p.Commodity, p.Target>> THEN p.Price ELSE book[e]]

\* The commodities by name.
NameRank(c) == CASE c = "CHF" -> 1 [] c = "EUR" -> 2 [] c = "USD" -> 3

\* Prices.Normalize(v): breadth-first from v, the weights multiplied along
\* the path with the fewest hops; normalized[v] = 1, unreachable
\* commodities are absent.
RECURSIVE NormalizeFrom(_, _)
NormalizeFrom(book, reached) ==
    LET next == {e \in DOMAIN book : e[1] \notin DOMAIN reached /\ e[2] \in DOMAIN reached}
        found == {e[1] : e \in next}
        via(c) == CHOOSE e \in next : e[1] = c /\ \A f \in next : f[1] = c => NameRank(e[2]) <= NameRank(f[2])
    IN IF next = {} THEN reached
       ELSE NormalizeFrom(book,
                [c \in DOMAIN reached \cup found |->
                    IF c \in DOMAIN reached THEN reached[c]
                    ELSE book[via(c)] * reached[via(c)[2]]])

Normalize(book, v) == NormalizeFrom(book, [c \in {v} |-> 1])

PriceLists == UNION {[1..n -> PriceDirectives] : n \in 0..MaxDayPrices}

PricesInputs ==
    {[v |-> v, days |-> ds, prc |-> NoBook, previous |-> NoPrices] :
        v \in Valuations, ds \in [1..NumPriceDays -> PriceLists]}

InitComputePrices ==
    /\ OthersOff
    /\ xin \in PricesInputs
    /\ xout = <<>>

RECURSIVE InsertAll(_, _)
InsertAll(book, prices) ==
    IF prices = <<>> THEN book ELSE InsertAll(PricesInsert(book, Head(prices)), Tail(prices))

\* ComputePricesDay with a price book per Day.
ComputePricesDayFreshBook ==
    /\ xin.v # NoValuation
    /\ Len(xout) < Len(xin.days)
    /\ LET date == Len(xout) + 1
           prices == xin.days[date]
           prc == InsertAll(NoBook, prices)
       IN IF prices = <<>>
          THEN /\ xout' = Append(xout, [Date |-> date, Prices |-> prices, Normalized |-> xin.previous])
               /\ xin' = xin
          ELSE /\ xout' = Append(xout, [Date |-> date, Prices |-> prices,
                                        Normalized |-> Normalize(prc, xin.v)])
               /\ xin' = [xin EXCEPT !.prc = prc, !.previous = Normalize(prc, xin.v)]
    /\ UNCHANGED <<balancerVars, heap, valuatorVars, sourceVars, engineVars, formatVars>>

\* The function ComputePrices returned, called with the next Day.
ComputePricesDay ==
    /\ xin.v # NoValuation
    /\ Len(xout) < Len(xin.days)
    /\ LET date == Len(xout) + 1
           prices == xin.days[date]
           prc == InsertAll(xin.prc, prices)
       IN IF prices = <<>>
          THEN /\ xout' = Append(xout, [Date |-> date, Prices |-> prices, Normalized |-> xin.previous])
               /\ xin' = xin
          ELSE /\ xout' = Append(xout, [Date |-> date, Prices |-> prices,
                                        Normalized |-> Normalize(prc, xin.v)])
               /\ xin' = [xin EXCEPT !.prc = prc, !.previous = Normalize(prc, xin.v)]
    /\ UNCHANGED <<balancerVars, heap, valuatorVars, sourceVars, engineVars, formatVars>>

\* v == nil: ComputePrices returned NoOp, the Day is left as it came.
ComputePricesNoOp ==
    /\ xin.v = NoValuation
    /\ Len(xout) < Len(xin.days)
    /\ xout' = Append(xout, [Date |-> Len(xout) + 1, Prices |-> xin.days[Len(xout) + 1],
                             Normalized |-> NoPrices])
    /\ xin' = xin
    /\ UNCHANGED <<balancerVars, heap, valuatorVars, sourceVars, engineVars, formatVars>>

NextComputePrices == ComputePricesDay \/ ComputePricesNoOp

SpecComputePrices == InitComputePrices /\ [][NextComputePrices]_vars

---------------------------------------------------------------------------
(* Transaction.Less, statement by statement: the comparison of the dates,  *)
(* of the descriptions, and the loop over the postings with its index i.   *)

MaxLessPostings == 2

LessPostings ==
    {NewPosting(Opening, Cash, k, x) : k \in Commodities, x \in 1..2}

LessTransactions ==
    {[Date |-> d, Description |-> desc, Postings |-> ps] :
        d \in 1..MaxDays,
        desc \in {<<"Pay">>, <<"Pay", "accrual", 1, 2>>},
        ps \in UNION {[1..n -> LessPostings] : n \in 0..MaxLessPostings}}

InitLess ==
    /\ OthersOff
    /\ xin \in {[pc |-> "date", t |-> t, t2 |-> t2, i |-> 0] :
                    t \in LessTransactions, t2 \in LessTransactions}
    /\ xout = <<>>

\* Posting.Less: credit name, debit name, amount, commodity.
PostingLess(p, p2) ==
    IF p.Credit # p2.Credit THEN AccountRank(p.Credit) < AccountRank(p2.Credit)
    ELSE IF p.Debit # p2.Debit THEN AccountRank(p.Debit) < AccountRank(p2.Debit)
    ELSE IF p.Amount # p2.Amount THEN p.Amount < p2.Amount
    ELSE CommodityRank(p.Commodity) < CommodityRank(p2.Commodity)

PostingEqual(p, p2) ==
    /\ p.Credit = p2.Credit
    /\ p.Debit = p2.Debit
    /\ p.Amount = p2.Amount
    /\ p.Commodity = p2.Commodity

LessReturn(b) ==
    /\ xin' = [xin EXCEPT !.pc = "returned"]
    /\ xout' = <<b>>

\* if !t.Date.Equal(t2.Date) { return t.Date.Before(t2.Date) }
LessDate ==
    /\ xin.pc = "date"
    /\ IF xin.t.Date # xin.t2.Date
       THEN LessReturn(xin.t.Date < xin.t2.Date)
       ELSE xin' = [xin EXCEPT !.pc = "description"] /\ xout' = xout
    /\ UNCHANGED <<balancerVars, heap, valuatorVars, sourceVars, engineVars, formatVars>>

\* if t.Description != t2.Description { return t.Description < t2.Description }
LessDescription ==
    /\ xin.pc = "description"
    /\ IF xin.t.Description # xin.t2.Description
       THEN LessReturn(LexLess(DescriptionKey(xin.t.Description),
                               DescriptionKey(xin.t2.Description)))
       ELSE xin' = [xin EXCEPT !.pc = "for"] /\ xout' = xout
    /\ UNCHANGED <<balancerVars, heap, valuatorVars, sourceVars, engineVars, formatVars>>

\* for i < len(t.Postings) && i < len(t2.Postings); after the loop
\* return len(t.Postings) < len(t2.Postings).
LessFor ==
    /\ xin.pc = "for"
    /\ IF xin.i < Len(xin.t.Postings) /\ xin.i < Len(xin.t2.Postings)
       THEN xin' = [xin EXCEPT !.pc = "if"] /\ xout' = xout
       ELSE LessReturn(Len(xin.t.Postings) < Len(xin.t2.Postings))
    /\ UNCHANGED <<balancerVars, heap, valuatorVars, sourceVars, engineVars, formatVars>>

\* The body of the loop: postings that differ decide; otherwise the loop
\* goes on to its condition, with i as it was.
LessIf ==
    /\ xin.pc = "if"
    /\ LET p == xin.t.Postings[xin.i + 1]
           p2 == xin.t2.Postings[xin.i + 1]
       IN IF ~PostingEqual(p, p2)
          THEN LessReturn(PostingLess(p, p2))
          ELSE xin' = [xin EXCEPT !.pc = "for"] /\ xout' = xout
    /\ UNCHANGED <<balancerVars, heap, valuatorVars, sourceVars, engineVars, formatVars>>

NextLess == LessDate \/ LessDescription \/ LessFor \/ LessIf

SpecLess == InitLess /\ [][NextLess]_vars

\* The call runs on: a statement that can be executed is executed.
SpecLessLive == SpecLess /\ WF_vars(NextLess)

---------------------------------------------------------------------------
(* RecursiveParser.Parse: a goroutine per file (the root and one per       *)
(* include directive, spawned by the goroutine that read the directive), a *)
(* sync.WaitGroup counting them, and a goroutine that waits for the group  *)
(* and closes the result channel.  File f may include file f + 1, so the   *)
(* includes nest up to NumFiles - 1 deep.  xin holds the files, the        *)
(* goroutines, the WaitGroup counter, ctx and the closing goroutine; xout  *)
(* holds the channel.                                                      *)

NumFiles == 3
MaxItems == 2
parseBuf == 2

ParseFiles == 1..NumFiles

\* What p.Next() yields for file f: directives ("d") and at most one
\* include of the next file, then io.EOF or an error; "nofile" when
\* FromPath fails.
FileContents(f) ==
    {[items |-> <<>>, ending |-> "nofile"]} \cup
    {[items |-> is, ending |-> e] :
        is \in {is \in UNION {[1..n -> {"d", "include"}] : n \in 0..MaxItems} :
                  /\ Cardinality({i \in DOMAIN is : is[i] = "include"}) <= 1
                  /\ f = NumFiles => \A i \in DOMAIN is : is[i] = "d"},
        e \in {"EOF", "error"}}

ParseInputs ==
    {[files |-> fs,
      g |-> [f \in ParseFiles |-> [pc |-> IF f = 1 THEN "open" ELSE "idle", idx |-> 1]],
      wg |-> 1, ctx |-> FALSE, closer |-> "wait"] :
        fs \in {fs \in [ParseFiles -> UNION {FileContents(f) : f \in ParseFiles}] :
                  \A f \in ParseFiles : fs[f] \in FileContents(f)}}

\* Parse has returned: rp.wg.Add(1) is done, the root goroutine and the
\* closing goroutine are started.
InitParse ==
    /\ OthersOff
    /\ xin \in ParseInputs
    /\ xout = [ch |-> 0, sent |-> 0, closed |-> FALSE, closes |-> 0, panicked |-> FALSE]

\* resCh <- x: a send on a closed channel panics.
ParseSend ==
    [xout EXCEPT !.ch = @ + 1, !.sent = @ + 1, !.panicked = @ \/ xout.closed]

\* parseRecursively returned nil in goroutine f: the deferred rp.wg.Done().
ParseDone(f) == [xin EXCEPT !.g[f].pc = "done", !.wg = @ - 1]

\* parseRecursively returned an error in goroutine f: the goroutine goes
\* on to the test err != nil && ctx.Err() == nil.
ParseFailed(f) == [xin EXCEPT !.g[f].pc = "report"]

\* FromPath(rp.Context, file).
ParseOpen(f) ==
    /\ xin.g[f].pc = "open"
    /\ xin' = IF xin.files[f].ending = "nofile" THEN ParseFailed(f)
              ELSE [xin EXCEPT !.g[f].pc = "next"]
    /\ xout' = xout
    /\ UNCHANGED <<balancerVars, heap, valuatorVars, sourceVars, engineVars, formatVars>>

\* p.Next() and the switch: io.EOF returns nil, an error returns it, an
\* include adds one to the group and starts the goroutine of the next
\* file, any other directive is about to be pushed.
ParseNext(f) ==
    /\ xin.g[f].pc = "next"
    /\ LET file == xin.files[f]
           idx == xin.g[f].idx
       IN xin' = IF idx > Len(file.items)
                 THEN IF file.ending = "EOF" THEN ParseDone(f) ELSE ParseFailed(f)
                 ELSE IF file.items[idx] = "include"
                 THEN [xin EXCEPT !.g[f].idx = idx + 1, !.wg = @ + 1, !.g[f + 1].pc = "open"]
                 ELSE [xin EXCEPT !.g[f].pc = "push"]
    /\ xout' = xout
    /\ UNCHANGED <<balancerVars, heap, valuatorVars, sourceVars, engineVars, formatVars>>

\* cpr.Push(ctx, resCh, d): the directive is sent.
ParsePush(f) ==
    /\ xin.g[f].pc = "push"
    /\ xout.ch < parseBuf
    /\ xin' = [xin EXCEPT !.g[f].pc = "next", !.g[f].idx = @ + 1]
    /\ xout' = ParseSend
    /\ UNCHANGED <<balancerVars, heap, valuatorVars, sourceVars, engineVars, formatVars>>

\* cpr.Push(ctx, resCh, d) returned ctx.Err(): parseRecursively returns it.
ParsePushCancelled(f) ==
    /\ xin.g[f].pc = "push"
    /\ xin.ctx
    /\ xin' = ParseFailed(f)
    /\ xout' = xout
    /\ UNCHANGED <<balancerVars, heap, valuatorVars, sourceVars, engineVars, formatVars>>

\* if err != nil && ctx.Err() == nil: the error is about to be pushed, or
\* the goroutine ends.
ParseReport(f) ==
    /\ xin.g[f].pc = "report"
    /\ xin' = IF xin.ctx THEN ParseDone(f) ELSE [xin EXCEPT !.g[f].pc = "pusherr"]
    /\ xout' = xout
    /\ UNCHANGED <<balancerVars, heap, valuatorVars, sourceVars, engineVars, formatVars>>

\* cpr.Push(ctx, resCh, err): the error is sent and the goroutine ends.
ParsePushError(f) ==
    /\ xin.g[f].pc = "pusherr"
    /\ xout.ch < parseBuf
    /\ xin' = ParseDone(f)
    /\ xout' = ParseSend
    /\ UNCHANGED <<balancerVars, heap, valuatorVars, sourceVars, engineVars, formatVars>>

\* cpr.Push(ctx, resCh, err) returned ctx.Err(): the goroutine ends.
ParsePushErrorCancelled(f) ==
    /\ xin.g[f].pc = "pusherr"
    /\ xin.ctx
    /\ xin' = ParseDone(f)
    /\ xout' = xout
    /\ UNCHANGED <<balancerVars, heap, valuatorVars, sourceVars, engineVars, formatVars>>

\* The closing goroutine that does not wait for the group.
ParseClosesAtOnce ==
    /\ xin.closer = "wait"
    /\ xin' = [xin EXCEPT !.closer = "closed"]
    /\ xout' = [xout EXCEPT !.closed = TRUE, !.closes = @ + 1]
    /\ UNCHANGED <<balancerVars, heap, valuatorVars, sourceVars, engineVars, formatVars>>

\* rp.wg.Wait() returns when the counter is zero; the deferred
\* close(resCh) runs.
ParseCloses ==
    /\ xin.closer = "wait"
    /\ xin.wg = 0
    /\ xin' = [xin EXCEPT !.closer = "closed"]
    /\ xout' = [xout EXCEPT !.closed = TRUE, !.closes = @ + 1]
    /\ UNCHANGED <<balancerVars, heap, valuatorVars, sourceVars, engineVars, formatVars>>

\* The reader of resCh takes a value.
ParseReceive ==
    /\ xin.closer # "off"
    /\ xout.ch > 0
    /\ xout' = [xout EXCEPT !.ch = @ - 1]
    /\ xin' = xin
    /\ UNCHANGED <<balancerVars, heap, valuatorVars, sourceVars, engineVars, formatVars>>

\* ctx is cancelled.
ParseCancel ==
    /\ xin.closer # "off"
    /\ ~xin.ctx
    /\ xin' = [xin EXCEPT !.ctx = TRUE]
    /\ xout' = xout
    /\ UNCHANGED <<balancerVars, heap, valuatorVars, sourceVars, engineVars, formatVars>>

NextParse ==
    \/ \E f \in ParseFiles : ParseOpen(f)
    \/ \E f \in ParseFiles : ParseNext(f)
    \/ \E f \in ParseFiles : ParsePush(f)
    \/ \E f \in ParseFiles : ParsePushCancelled(f)
    \/ \E f \in ParseFiles : ParseReport(f)
    \/ \E f \in ParseFiles : ParsePushError(f)
    \/ \E f \in ParseFiles : ParsePushErrorCancelled(f)
    \/ ParseCloses
    \/ ParseReceive
    \/ ParseCancel

SpecParse == InitParse /\ [][NextParse]_vars

---------------------------------------------------------------------------
(* The pipeline engine: slice.Parallel wires a feeder goroutine, one       *)
(* goroutine per stage function and a sink through buffered channels,      *)
(* all started in one errgroup; Balancer.Process2 is a stage of the same   *)
(* shape started in the caller's errgroup.  The two differ in one place:   *)
(* Parallel's next() drops the error of its push, Process2 returns it.     *)
(* cpr.Push and cpr.Pop are a select between the channel operation and     *)
(* ctx.Done(): when both are ready either may be taken.  errgroup records  *)
(* the first non-nil error a goroutine returns and then cancels ctx; Wait  *)
(* returns the recorded error once every goroutine has returned.           *)

NumDays == 4
NumStages == 2
bufSize == 2

Styles == {"Parallel", "Process2"}
Feeder == 0
Stages == 1..NumStages
Sink == NumStages + 1
Ts == [i \in 1..NumDays |-> i]

Nil == [kind |-> "nil", stage |-> 0]
Canceled == [kind |-> "canceled", stage |-> 0]
StageError(s) == [kind |-> "stage", stage |-> s]

InitEngine ==
    /\ impl = "Process2"
    /\ BalancerInit
    /\ heap = <<EmptyAmounts>>
    /\ ValuatorOff
    /\ SourceOff
    /\ ExpandOff
    /\ FormatOff
    /\ style \in Styles
    /\ chans = [i \in 0..NumStages |-> <<>>]
    /\ closed = [i \in 0..NumStages |-> FALSE]
    /\ workers = [w \in 0..Sink |->
                     [pc |-> IF w = Feeder THEN "run" ELSE "pop",
                      t |-> IF w = Feeder THEN 1 ELSE 0,
                      err |-> Nil]]
    /\ gErr = Nil
    /\ ctxDone = FALSE
    /\ res = <<>>
    /\ ret = [pc |-> "running", err |-> Nil]

\* The select of cpr.Push and cpr.Pop has a ready ctx.Done() case.
Cancellable(done) == done

\* ch <- t on a buffered channel.
SendFirst(ch, t) == <<t>> \o ch
Send(ch, t) == Append(ch, t)

\* errOnce.Do: only the first error is kept.
errOnceLast(g, e) == e
errOnce(g, e) == IF g = Nil THEN e ELSE g

\* The goroutine of worker w returns e: its deferred close(outCh) runs;
\* a non-nil e is then handed to the group.
ReturnsWithoutClose(w, e) ==
    /\ workers' = [workers EXCEPT ![w].pc = IF e = Nil THEN "done" ELSE "exit",
                                  ![w].err = e]
    /\ closed' = closed

\* Returns with a close that runs on a nil return only.
ReturnsClosingOnSuccess(w, e) ==
    /\ workers' = [workers EXCEPT ![w].pc = IF e = Nil THEN "done" ELSE "exit",
                                  ![w].err = e]
    /\ closed' = IF w = Sink \/ e # Nil THEN closed ELSE [closed EXCEPT ![w] = TRUE]

Returns(w, e) ==
    /\ workers' = [workers EXCEPT ![w].pc = IF e = Nil THEN "done" ELSE "exit",
                                  ![w].err = e]
    /\ closed' = IF w = Sink THEN closed ELSE [closed EXCEPT ![w] = TRUE]

\* The feeder pushes the next element of ts.
FeederPush ==
    /\ workers[Feeder].pc = "run"
    /\ workers[Feeder].t <= NumDays
    /\ Len(chans[Feeder]) < bufSize
    /\ chans' = [chans EXCEPT ![Feeder] = Send(@, Ts[workers[Feeder].t])]
    /\ workers' = [workers EXCEPT ![Feeder].t = @ + 1]
    /\ UNCHANGED <<style, closed, gErr, ctxDone, res, ret>>
    /\ UNCHANGED <<balancerVars, heap, valuatorVars, sourceVars, expandVars, formatVars>>

\* cpr.Push returned ctx.Err(): the feeder returns it.
FeederCancelled ==
    /\ workers[Feeder].pc = "run"
    /\ workers[Feeder].t <= NumDays
    /\ Cancellable(ctxDone)
    /\ Returns(Feeder, Canceled)
    /\ UNCHANGED <<style, chans, gErr, ctxDone, res, ret>>
    /\ UNCHANGED <<balancerVars, heap, valuatorVars, sourceVars, expandVars, formatVars>>

\* Every element is pushed: the feeder returns nil.
FeederDone ==
    /\ workers[Feeder].pc = "run"
    /\ workers[Feeder].t > NumDays
    /\ Returns(Feeder, Nil)
    /\ UNCHANGED <<style, chans, gErr, ctxDone, res, ret>>
    /\ UNCHANGED <<balancerVars, heap, valuatorVars, sourceVars, expandVars, formatVars>>

\* Stage s pops a Day and runs its function on it, which either accepts
\* the Day (it is pushed next) or fails (the stage returns the error).
StageRun(s, ok) ==
    /\ workers[s].pc = "pop"
    /\ chans[s - 1] # <<>>
    /\ chans' = [chans EXCEPT ![s - 1] = Tail(@)]
    /\ IF ok
       THEN /\ workers' = [workers EXCEPT ![s].pc = "push",
                                          ![s].t = Head(chans[s - 1])]
            /\ closed' = closed
       ELSE Returns(s, StageError(s))
    /\ UNCHANGED <<style, gErr, ctxDone, res, ret>>
    /\ UNCHANGED <<balancerVars, heap, valuatorVars, sourceVars, expandVars, formatVars>>

\* Stage s pushes the Day it holds.
StagePush(s) ==
    /\ workers[s].pc = "push"
    /\ Len(chans[s]) < bufSize
    /\ chans' = [chans EXCEPT ![s] = Send(@, workers[s].t)]
    /\ workers' = [workers EXCEPT ![s].pc = "pop", ![s].t = 0]
    /\ UNCHANGED <<style, closed, gErr, ctxDone, res, ret>>
    /\ UNCHANGED <<balancerVars, heap, valuatorVars, sourceVars, expandVars, formatVars>>

\* cpr.Push returned ctx.Err(): next() of Parallel drops it together with
\* the Day and the stage goes on consuming; Process2 returns it.
StagePushCancelled(s) ==
    /\ workers[s].pc = "push"
    /\ Cancellable(ctxDone)
    /\ IF style = "Parallel"
       THEN /\ workers' = [workers EXCEPT ![s].pc = "pop", ![s].t = 0]
            /\ closed' = closed
       ELSE Returns(s, Canceled)
    /\ UNCHANGED <<style, chans, gErr, ctxDone, res, ret>>
    /\ UNCHANGED <<balancerVars, heap, valuatorVars, sourceVars, expandVars, formatVars>>

\* The sink pops a Day and appends it to res.
SinkAppend ==
    /\ workers[Sink].pc = "pop"
    /\ chans[NumStages] # <<>>
    /\ chans' = [chans EXCEPT ![NumStages] = Tail(@)]
    /\ res' = Append(res, Head(chans[NumStages]))
    /\ UNCHANGED <<style, closed, workers, gErr, ctxDone, ret>>
    /\ UNCHANGED <<balancerVars, heap, valuatorVars, sourceVars, expandVars, formatVars>>

\* The input of worker w is closed and drained: w returns nil.
PopClosed(w) ==
    /\ workers[w].pc = "pop"
    /\ chans[w - 1] = <<>>
    /\ closed[w - 1]
    /\ Returns(w, Nil)
    /\ UNCHANGED <<style, chans, gErr, ctxDone, res, ret>>
    /\ UNCHANGED <<balancerVars, heap, valuatorVars, sourceVars, expandVars, formatVars>>

\* cpr.Pop returned ctx.Err(): w returns it.
PopCancelled(w) ==
    /\ workers[w].pc = "pop"
    /\ Cancellable(ctxDone)
    /\ Returns(w, Canceled)
    /\ UNCHANGED <<style, chans, gErr, ctxDone, res, ret>>
    /\ UNCHANGED <<balancerVars, heap, valuatorVars, sourceVars, expandVars, formatVars>>

\* The group receives the error worker w returned: the first one is kept
\* and cancels ctx.
GroupRecords(w) ==
    /\ workers[w].pc = "exit"
    /\ gErr' = errOnce(gErr, workers[w].err)
    /\ ctxDone' = TRUE
    /\ workers' = [workers EXCEPT ![w].pc = "done"]
    /\ UNCHANGED <<style, chans, closed, res, ret>>
    /\ UNCHANGED <<balancerVars, heap, valuatorVars, sourceVars, expandVars, formatVars>>

\* wg.Wait() returns: every goroutine has returned.
WaitReturns ==
    /\ ret.pc = "running"
    /\ \A w \in 0..Sink : workers[w].pc = "done"
    /\ ret' = [pc |-> "returned", err |-> gErr]
    /\ ctxDone' = TRUE
    /\ UNCHANGED <<style, chans, closed, workers, gErr, res>>
    /\ UNCHANGED <<balancerVars, heap, valuatorVars, sourceVars, expandVars, formatVars>>

NextEngine ==
    \/ FeederPush
    \/ FeederCancelled
    \/ FeederDone
    \/ \E s \in Stages, ok \in BOOLEAN : StageRun(s, ok)
    \/ \E s \in Stages : StagePush(s)
    \/ \E s \in Stages : StagePushCancelled(s)
    \/ SinkAppend
    \/ \E w \in 1..Sink : PopClosed(w)
    \/ \E w \in 1..Sink : PopCancelled(w)
    \/ \E w \in 0..Sink : GroupRecords(w)
    \/ WaitReturns

SpecEngine == InitEngine /\ [][NextEngine]_vars

\* A goroutine that can take a step is eventually scheduled.
SpecEngineLive == SpecEngine /\ WF_vars(NextEngine)

---------------------------------------------------------------------------
(* The format command.  Two versions live in the sources: execute          *)
(* (part_003), whose dispatcher goroutine owns the semaphore and closes    *)
(* errCh while the caller ranges over it, with every channel operation in  *)
(* a select with ctx.Done(); and run (part_007), where the caller          *)
(* dispatches, a collector goroutine appends to the named result errors,   *)
(* and the function ends with "return nil".  A task is the goroutine       *)
(* started for one file argument; errCh is unbuffered, so a send is a      *)
(* rendezvous with the receive.                                            *)

concurrency == 10
MaxFiles == 11

FormatVariants == {"execute", "run"}
ArgCounts == {2, MaxFiles}
FailCandidates == {1, 2, MaxFiles}

InitFormat ==
    /\ impl = "Process2"
    /\ BalancerInit
    /\ heap = <<EmptyAmounts>>
    /\ ValuatorOff
    /\ SourceOff
    /\ ExpandOff
    /\ EngineOff
    /\ fvariant \in FormatVariants
    /\ \E n \in ArgCounts :
          /\ disp = [pc |-> "launch", n |-> n, next |-> 1, fill |-> 0]
          /\ fails \in SUBSET (FailCandidates \cap 1..n)
    /\ tasks = [good |-> 0, bad |-> [i \in fails |-> "idle"]]
    /\ sema = 0
    /\ coll = [pc |-> "recv", held |-> 0]
    /\ errChClosed = FALSE
    /\ errors = <<>>
    /\ fctx = FALSE
    /\ fret = [pc |-> "running", errors |-> <<>>]

\* sema <- true can proceed: the channel holds fewer than its capacity.
SemaUnbounded(n) == TRUE
SemaHasRoom(n) == n < concurrency

\* The value of "return nil" in run, whatever the collector appended.
ReturnNil(e) == <<>>

\* ctx.Done() is ready: only execute selects on it.
Done == fvariant = "execute" /\ fctx

Alive == fret.pc # "panicked"

\* The loop over args takes a slot and starts the task of the next file.
Dispatch ==
    /\ Alive
    /\ disp.pc = "launch"
    /\ disp.next <= disp.n
    /\ SemaHasRoom(sema)
    /\ sema' = sema + 1
    /\ tasks' = IF disp.next \in fails
                 THEN [tasks EXCEPT !.bad[disp.next] = "run"]
                 ELSE [tasks EXCEPT !.good = @ + 1]
    /\ disp' = [disp EXCEPT !.next = @ + 1]
    /\ UNCHANGED <<fvariant, fails, coll, errChClosed, errors, fctx, fret>>
    /\ UNCHANGED <<balancerVars, heap, valuatorVars, sourceVars, expandVars, engineVars>>

\* Every file has its task: the final loop takes the slots one by one.
Fill ==
    /\ Alive
    /\ disp.pc = "launch"
    /\ disp.next > disp.n
    /\ disp.fill < concurrency
    /\ SemaHasRoom(sema)
    /\ sema' = sema + 1
    /\ disp' = [disp EXCEPT !.fill = @ + 1]
    /\ UNCHANGED <<fvariant, fails, tasks, coll, errChClosed, errors, fctx, fret>>
    /\ UNCHANGED <<balancerVars, heap, valuatorVars, sourceVars, expandVars, engineVars>>

\* execute: the dispatcher goroutine has taken all slots and returns; its
\* deferred calls close sema and errCh.
DispatcherReturns ==
    /\ Alive
    /\ fvariant = "execute"
    /\ disp.pc = "launch"
    /\ disp.fill = concurrency
    /\ disp' = [disp EXCEPT !.pc = "done"]
    /\ errChClosed' = TRUE
    /\ UNCHANGED <<fvariant, fails, tasks, sema, coll, errors, fctx, fret>>
    /\ UNCHANGED <<balancerVars, heap, valuatorVars, sourceVars, expandVars, engineVars>>

\* execute: a select of the dispatcher takes ctx.Done(); it returns and
\* closes errCh at once.
DispatcherCancelled ==
    /\ Alive
    /\ Done
    /\ disp.pc = "launch"
    /\ disp.fill < concurrency
    /\ disp' = [disp EXCEPT !.pc = "done"]
    /\ errChClosed' = TRUE
    /\ UNCHANGED <<fvariant, fails, tasks, sema, coll, errors, fctx, fret>>
    /\ UNCHANGED <<balancerVars, heap, valuatorVars, sourceVars, expandVars, engineVars>>

\* formatFile returns nil in the task of a good file: the task frees its
\* slot and ends (in execute it may take ctx.Done() instead and end without
\* freeing it).  The tasks of good files differ in nothing but their file.
GoodTaskEnds(viaCtx) ==
    /\ Alive
    /\ tasks.good > 0
    /\ viaCtx => Done
    /\ tasks' = [tasks EXCEPT !.good = @ - 1]
    /\ sema' = IF viaCtx THEN sema ELSE sema - 1
    /\ UNCHANGED <<fvariant, fails, disp, coll, errChClosed, errors, fctx, fret>>
    /\ UNCHANGED <<balancerVars, heap, valuatorVars, sourceVars, expandVars, engineVars>>

\* formatFile returns an error in task i, which goes on to send it.
TaskFormatFails(i) ==
    /\ Alive
    /\ i \in fails
    /\ tasks.bad[i] = "run"
    /\ tasks' = [tasks EXCEPT !.bad[i] = "send"]
    /\ UNCHANGED <<fvariant, fails, disp, sema, coll, errChClosed, errors, fctx, fret>>
    /\ UNCHANGED <<balancerVars, heap, valuatorVars, sourceVars, expandVars, engineVars>>

\* errCh <- err of task i meets the receive of the range loop.
TaskSend(i) ==
    /\ Alive
    /\ i \in fails
    /\ tasks.bad[i] = "send"
    /\ ~errChClosed
    /\ coll.pc = "recv"
    /\ fret.pc = "running"
    /\ tasks' = [tasks EXCEPT !.bad[i] = "release"]
    /\ coll' = [pc |-> "append", held |-> i]
    /\ UNCHANGED <<fvariant, fails, disp, sema, errChClosed, errors, fctx, fret>>
    /\ UNCHANGED <<balancerVars, heap, valuatorVars, sourceVars, expandVars, engineVars>>

\* execute: the select of task i takes ctx.Done(): the task ends, its
\* error is sent nowhere.
TaskSendCancelled(i) ==
    /\ Alive
    /\ Done
    /\ i \in fails
    /\ tasks.bad[i] = "send"
    /\ tasks' = [tasks EXCEPT !.bad[i] = "done"]
    /\ UNCHANGED <<fvariant, fails, disp, sema, coll, errChClosed, errors, fctx, fret>>
    /\ UNCHANGED <<balancerVars, heap, valuatorVars, sourceVars, expandVars, engineVars>>

\* execute: the select of task i takes the send on errCh, which the
\* dispatcher has closed: the program panics.
TaskSendPanics(i) ==
    /\ Alive
    /\ i \in fails
    /\ tasks.bad[i] = "send"
    /\ errChClosed
    /\ fret' = [pc |-> "panicked", errors |-> <<>>]
    /\ UNCHANGED <<fvariant, fails, disp, tasks, sema, coll, errChClosed, errors, fctx>>
    /\ UNCHANGED <<balancerVars, heap, valuatorVars, sourceVars, expandVars, engineVars>>

\* Task i frees its slot and ends (in execute it may take ctx.Done()
\* instead).
TaskRelease(i, viaCtx) ==
    /\ Alive
    /\ i \in fails
    /\ tasks.bad[i] = "release"
    /\ viaCtx => Done
    /\ tasks' = [tasks EXCEPT !.bad[i] = "done"]
    /\ sema' = IF viaCtx THEN sema ELSE sema - 1
    /\ UNCHANGED <<fvariant, fails, disp, coll, errChClosed, errors, fctx, fret>>
    /\ UNCHANGED <<balancerVars, heap, valuatorVars, sourceVars, expandVars, engineVars>>

\* errors = multierr.Append(errors, err) in the range loop.
CollectorAppend ==
    /\ Alive
    /\ coll.pc = "append"
    /\ errors' = Append(errors, coll.held)
    /\ coll' = [pc |-> "recv", held |-> 0]
    /\ UNCHANGED <<fvariant, fails, disp, tasks, sema, errChClosed, fctx, fret>>
    /\ UNCHANGED <<balancerVars, heap, valuatorVars, sourceVars, expandVars, engineVars>>

\* execute: errCh is closed, the range loop ends and errors is returned.
ExecuteReturns ==
    /\ fvariant = "execute"
    /\ fret.pc = "running"
    /\ errChClosed
    /\ coll.pc = "recv"
    /\ fret' = [pc |-> "returned", errors |-> errors]
    /\ UNCHANGED <<fvariant, fails, disp, tasks, sema, coll, errChClosed, errors, fctx>>
    /\ UNCHANGED <<balancerVars, heap, valuatorVars, sourceVars, expandVars, engineVars>>

\* run: all slots are taken; "return nil" assigns nil to the result
\* errors and the deferred close(errCh) runs.
RunReturnNil ==
    /\ fvariant = "run"
    /\ disp.pc = "launch"
    /\ disp.fill = concurrency
    /\ errors' = ReturnNil(errors)
    /\ errChClosed' = TRUE
    /\ disp' = [disp EXCEPT !.pc = "return"]
    /\ UNCHANGED <<fvariant, fails, tasks, sema, coll, fctx, fret>>
    /\ UNCHANGED <<balancerVars, heap, valuatorVars, sourceVars, expandVars, engineVars>>

\* run: the caller gets the result errors as it is now; the collector's
\* unsynchronised append may have landed after "return nil".
RunReturns ==
    /\ fvariant = "run"
    /\ disp.pc = "return"
    /\ fret' = [pc |-> "returned", errors |-> errors]
    /\ disp' = [disp EXCEPT !.pc = "done"]
    /\ UNCHANGED <<fvariant, fails, tasks, sema, coll, errChClosed, errors, fctx>>
    /\ UNCHANGED <<balancerVars, heap, valuatorVars, sourceVars, expandVars, engineVars>>

\* execute: the command's context is cancelled.
Cancel ==
    /\ fvariant = "execute"
    /\ fret.pc = "running"
    /\ ~fctx
    /\ fctx' = TRUE
    /\ UNCHANGED <<fvariant, fails, disp, tasks, sema, coll, errChClosed, errors, fret>>
    /\ UNCHANGED <<balancerVars, heap, valuatorVars, sourceVars, expandVars, engineVars>>

NextFormat ==
    \/ Dispatch
    \/ Fill
    \/ DispatcherReturns
    \/ DispatcherCancelled
    \/ \E viaCtx \in BOOLEAN : GoodTaskEnds(viaCtx)
    \/ \E i \in FailCandidates : TaskFormatFails(i)
    \/ \E i \in FailCandidates : TaskSend(i)
    \/ \E i \in FailCandidates : TaskSendCancelled(i)
    \/ \E i \in FailCandidates : TaskSendPanics(i)
    \/ \E i \in FailCandidates, viaCtx \in BOOLEAN : TaskRelease(i, viaCtx)
    \/ CollectorAppend
    \/ ExecuteReturns
    \/ RunReturnNil
    \/ RunReturns
    \/ Cancel

SpecFormat == InitFormat /\ [][NextFormat]_vars

---------------------------------------------------------------------------
(* Helpers of the properties *)

RECURSIVE SumOf(_, _)
SumOf(m, ks) ==
    IF ks = {} THEN 0
    ELSE LET k == CHOOSE x \in ks : TRUE IN m[k] + SumOf(m, ks \ {k})

\* The sum of a position map over all accounts, for one commodity.
CommoditySum(m, c) == SumOf(m, {pos \in DOMAIN m : pos[2] = c})

\* The Days of the run so far: the Days pushed and, while one is being
\* processed, that Day.
History == IF InDay \/ pc = "failed" THEN Append(resCh, day) ELSE resCh

---------------------------------------------------------------------------
(* C1 (as amended): under Balancer.Process2 and Balancer.Process, which    *)
(* book both legs of every posting, the running position map and every     *)
(* snapshot attached to a pushed Day sum to zero over all accounts, for    *)
(* every commodity, at every point of a run: postings, value adjustments   *)
(* and closings preserve it.                                               *)
C1_Conservation ==
    impl \in {"Process2", "Process"} =>
        /\ \A c \in Commodities : CommoditySum(heap[amounts], c) = 0
        /\ \A i \in 1..Len(resCh) : \A c \in Commodities :
              CommoditySum(heap[resCh[i].Amounts], c) = 0

\* C1 as stated: after any sequence of Days processed without error the map
\* sums to zero per commodity, whichever Balancer ran.
C1_Original ==
    (pc = "pop" /\ err = NoError) =>
        \A c \in Commodities : CommoditySum(heap[amounts], c) = 0

\* A Day with a transaction, a value adjustment and a closing has been
\* pushed by Process2, and nonzero positions remain.
C1_Witness ==
    /\ impl = "Process2"
    /\ pc = "pop"
    /\ \E i \in 1..Len(resCh) :
          /\ resCh[i].Values # <<>>
          /\ resCh[i].Closings # <<>>
          /\ Len(resCh[i].Transactions) >= 2
    /\ \E pos \in DOMAIN heap[amounts] : heap[amounts][pos] # 0

---------------------------------------------------------------------------
(* The accounts a directive refers to, and the lifecycle of an account as  *)
(* the journal states it.                                                  *)

RefKinds == {"transaction", "value", "assertion", "close"}

PostingAccounts(p) == IF "Credit" \in DOMAIN p THEN {p.Credit, p.Debit} ELSE {p.Account}

Refs(l) ==
    CASE l.kind = "transaction" -> UNION {PostingAccounts(p) : p \in Range(l.trx.Postings)}
      [] l.kind = "value" -> {l.value.Account}
      [] l.kind = "assertion" -> {l.assertion.Account}
      [] l.kind = "close" -> {l.account}
      [] OTHER -> {}

\* a was opened on a day <= d and, since that opening, not closed on a day < d.
OpenedAndNotClosed(a, d) ==
    \E i \in 1..Len(History) :
        /\ History[i].Date <= d
        /\ [Account |-> a] \in Range(History[i].Openings)
        /\ \A j \in i..Len(History) :
              History[j].Date < d => [Account |-> a] \notin Range(History[j].Closings)

\* The latest lifecycle directive of a in the journal so far is an Open.
OpenedAndNotClosedSince(a) ==
    \E i \in 1..Len(History) :
        /\ [Account |-> a] \in Range(History[i].Openings)
        /\ \A j \in i..Len(History) : [Account |-> a] \notin Range(History[j].Closings)

\* The accounts C2 holds for: under Process2 an EQUITY account needs no Open.
NeedsOpen(a) == impl # "Process2" \/ Type(a) # "EQUITY"

\* The postings of a transaction before the first one that refers to an
\* account outside the set oa, booked in order.
RECURSIVE BookedPrefix(_, _, _)
BookedPrefix(m, oa, ps) ==
    IF ps = <<>> THEN m
    ELSE LET p == Head(ps) IN
        IF \E a \in PostingAccounts(p) : NeedsOpen(a) /\ a \notin oa THEN m
        ELSE IF "Credit" \in DOMAIN p
        THEN BookedPrefix(
                 Add(Add(m, <<p.Credit, p.Commodity>>, 0 - p.Amount), <<p.Debit, p.Commodity>>, p.Amount),
                 oa, Tail(ps))
        ELSE BookedPrefix(
                 IF IsAL(p.Account) THEN Add(m, <<p.Account, p.Commodity>>, p.Amount) ELSE m,
                 oa, Tail(ps))

---------------------------------------------------------------------------
---------------------------------------------------------------------------
(* C3: Open(a) fails with AccountAlreadyOpen iff a is in the open set and  *)
(* otherwise inserts it; accounts.Close(a) fails iff a is not in the set   *)
(* and otherwise removes it; no other step changes the set, which is       *)
(* exactly the accounts whose latest lifecycle directive is an Open.  (A   *)
(* Close directive that meets a nonzero position fails before it reaches   *)
(* accounts.Close and leaves the set alone.)                               *)
C3_OpenSet ==
    [][ /\ last'.kind = "open" =>
              /\ last'.ok <=> last'.account \notin open
              /\ open' = open \cup {last'.account}
              /\ ~last'.ok => err'.kind = "AccountAlreadyOpen" /\ pc' = "failed"
        /\ (last'.kind = "close" /\ err'.kind # "NonzeroClose") =>
              /\ last'.ok <=> last'.account \in open
              /\ open' = open \ {last'.account}
              /\ ~last'.ok => err'.kind = "AccountNotOpen" /\ pc' = "failed"
        /\ (last'.kind = "close" /\ err'.kind = "NonzeroClose") => open' = open
        /\ last'.kind \notin {"open", "close"} => open' = open
        /\ err' = NoError => open' = {a \in JournalAccounts : OpenedAndNotClosedSince(a)'}
      ]_vars

\* An account is opened again after it was closed on an earlier Day.
C3_Witness ==
    /\ last.kind = "open" /\ last.ok
    /\ \E i \in 1..Len(resCh) : [Account |-> last.account] \in Range(resCh[i].Closings)

---------------------------------------------------------------------------
(* C4 (as amended): under Process2 a posting, a value and an assertion     *)
(* that refer to an EQUITY account are never rejected as not open, whether *)
(* or not the account was opened or closed; a Close of an EQUITY account   *)
(* that is not in the open set is rejected.  (Process and Balance give     *)
(* EQUITY accounts no such rule.)                                          *)
C4_EquityAlwaysOpen ==
    [][ impl = "Process2" =>
          /\ (/\ last'.kind \in {"transaction", "value", "assertion"}
              /\ \A a \in Refs(last') : Type(a) = "EQUITY" \/ a \in open)
                 => err'.kind # "AccountNotOpen"
          /\ (last'.kind \in {"transaction", "value", "assertion"} /\ err'.kind = "AccountNotOpen")
                 => Type(err'.account) # "EQUITY"
          /\ (last'.kind = "close" /\ Type(last'.account) = "EQUITY" /\ last'.account \notin open)
                 => ~last'.ok /\ err'.kind \in {"AccountNotOpen", "NonzeroClose"}
      ]_vars

\* C4 as stated: no posting, value, assertion or close is rejected as not
\* open because of an EQUITY account.
C4_Original ==
    (last.kind \in RefKinds /\ err.kind = "AccountNotOpen") => Type(err.account) # "EQUITY"

\* Process2 accepts a directive that refers to an EQUITY account closed on
\* an earlier Day.
C4_Witness ==
    /\ impl = "Process2"
    /\ last.kind \in {"transaction", "value", "assertion"} /\ last.ok
    /\ \E a \in Refs(last) :
          /\ Type(a) = "EQUITY"
          /\ a \notin open
          /\ \E i \in 1..Len(resCh) : [Account |-> a] \in Range(resCh[i].Closings)

---------------------------------------------------------------------------
(* C5 (as amended): an assertion (a, k, expected) passes iff a is open,    *)
(* the position (a, k) has an entry and the entry equals expected.  An     *)
(* assertion on an account that is not open fails with AccountNotOpen;     *)
(* every other failing assertion fails with AssertionFailed carrying the   *)
(* amount the Balancer holds (zero when there is no entry).  An assertion  *)
(* changes neither the amounts nor the open set.                           *)
C5_Assertion ==
    [][ last'.kind = "assertion" =>
          LET a == last'.assertion
              m == heap[amounts]
              position == <<a.Account, a.Commodity>>
              isOpen == a.Account \in open \/ (impl = "Process2" /\ Type(a.Account) = "EQUITY")
          IN /\ last'.ok <=> (isOpen /\ position \in DOMAIN m /\ m[position] = a.Amount)
             /\ last'.ok <=> err' = NoError
             /\ ~isOpen => err'.kind = "AccountNotOpen" /\ err'.account = a.Account
             /\ (isOpen /\ ~last'.ok) =>
                   /\ err'.kind = "AssertionFailed"
                   /\ err'.account = a.Account
                   /\ err'.actual = (IF position \in DOMAIN m THEN m[position] ELSE 0)
             /\ ~last'.ok => pc' = "failed"
             /\ heap' = heap /\ amounts' = amounts /\ open' = open
      ]_vars

\* C5 as stated: every assertion that does not pass fails with
\* AssertionFailed.
C5_Original ==
    (last.kind = "assertion" /\ ~last.ok) => err.kind = "AssertionFailed"

\* An assertion on an open account with a nonzero entry that differs from
\* the expected amount has failed, reporting the entry.
C5_Witness ==
    /\ last.kind = "assertion" /\ ~last.ok
    /\ err.kind = "AssertionFailed"
    /\ <<last.assertion.Account, last.assertion.Commodity>> \in DOMAIN heap[amounts]
    /\ err.actual = heap[amounts][<<last.assertion.Account, last.assertion.Commodity>>]
    /\ err.actual # 0
    /\ err.actual # last.assertion.Amount

---------------------------------------------------------------------------
(* C6: a Close of an account with a nonzero amount in any commodity fails  *)
(* with NonzeroClose; a Close that succeeds leaves no position of the      *)
(* account in the amounts; and in every emitted Day no account closed on   *)
(* that Day has a nonzero entry, neither in the running amounts at the     *)
(* time of the push nor in the Day's snapshot.                             *)
C6_Close ==
    [][ /\ last'.kind = "close" =>
              LET a == last'.account
                  m == heap[amounts]
                  nonzero == \E pos \in DOMAIN m : pos[1] = a /\ m[pos] # 0
              IN /\ nonzero => (~last'.ok /\ err'.kind = "NonzeroClose"
                                /\ err'.account = a /\ pc' = "failed")
                 /\ ~nonzero => err'.kind # "NonzeroClose"
                 /\ last'.ok => \A pos \in DOMAIN heap'[amounts'] : pos[1] # a
                 /\ \A pos \in DOMAIN heap'[amounts'] : pos[1] # a =>
                        pos \in DOMAIN m /\ heap'[amounts'][pos] = m[pos]
        /\ last'.kind = "push" =>
              LET d == resCh'[Len(resCh')] IN
              \A i \in 1..Len(d.Closings) :
                  /\ \A pos \in DOMAIN heap'[amounts'] :
                        pos[1] = d.Closings[i].Account => heap'[amounts'][pos] = 0
                  /\ d.Amounts # NoRef =>
                        \A pos \in DOMAIN heap'[d.Amounts] :
                            pos[1] = d.Closings[i].Account => heap'[d.Amounts][pos] = 0
      ]_vars

\* A Close has succeeded on an account that held entries, all of them zero,
\* and the entries are gone.
C6_Witness ==
    /\ last.kind = "close" /\ last.ok
    /\ last.had # {}
    /\ \A pos \in DOMAIN heap[amounts] : pos[1] # last.account

---------------------------------------------------------------------------
(* C7: an accepted Value(a, k, v) leaves amounts[(a, k)] = v, whatever the *)
(* amount was before, and synthesises exactly one transaction, dated as    *)
(* the Day and described "Valuation adjustment for <k> in <a>", whose one  *)
(* posting moves |v - old| of k between the valuation account of a and a:  *)
(* into a when v >= old, out of a when v < old.  (journal.Balance keeps    *)
(* single-sided postings and builds the two legs of that booking.)  The    *)
(* transaction is carried by the Day.                                      *)
C7_Value ==
    /\ \A i \in 1..Len(resCh) :
          Len(resCh[i].Values) =
              Cardinality({j \in 1..Len(resCh[i].Transactions) :
                               Len(resCh[i].Transactions[j].Description) > 1})
    /\ (last.kind = "value" /\ last.ok) =>
        LET v == last.value
            m == heap[amounts]
            position == <<v.Account, v.Commodity>>
            valAcc == <<"Equity", "Valuation">> \o Tail(v.Account)
            delta == v.Amount - last.old
            t == last.trx[1]
        IN /\ position \in DOMAIN m /\ m[position] = v.Amount
           /\ Len(last.trx) = 1
           /\ t.Date = day.Date
           /\ t.Description = <<"Valuation adjustment for", v.Commodity, "in", v.Account>>
           /\ impl # "Balance" =>
                 /\ Len(t.Postings) = 1
                 /\ t.Postings[1] =
                       IF delta >= 0
                       THEN [Credit |-> valAcc, Debit |-> v.Account,
                             Commodity |-> v.Commodity, Amount |-> delta]
                       ELSE [Credit |-> v.Account, Debit |-> valAcc,
                             Commodity |-> v.Commodity, Amount |-> 0 - delta]
           /\ impl = "Balance" =>
                 /\ Len(t.Postings) = 2
                 /\ \E i \in 1..2 :
                       /\ t.Postings[i].Account = v.Account
                       /\ t.Postings[i].Other = valAcc
                       /\ t.Postings[i].Commodity = v.Commodity
                       /\ t.Postings[i].Amount = delta
                       /\ t.Postings[3 - i].Account = valAcc
                       /\ t.Postings[3 - i].Other = v.Account
                       /\ t.Postings[3 - i].Commodity = v.Commodity
                       /\ t.Postings[3 - i].Amount = 0 - delta
           /\ IF impl = "Process2"
              THEN transactions # <<>> /\ transactions[Len(transactions)] = t
              ELSE t \in Range(day.Transactions)
           /\ Len(day.Values) =
                 Cardinality({i \in 1..Len(day.Transactions) :
                                  Len(day.Transactions[i].Description) > 1})
                 + Len(transactions)

\* A Value below the amount held has been accepted: the position is
\* lowered to v by a posting out of the account.
C7_Witness ==
    /\ last.kind = "value" /\ last.ok
    /\ last.value.Amount < last.old
    /\ last.old # 0
    /\ heap[amounts][<<last.value.Account, last.value.Commodity>>] = last.value.Amount

---------------------------------------------------------------------------
(* C8: the map attached to an emitted Day (Amounts by the Balancer, Values *)
(* by the Valuator) equals the stage's running map when the Day is pushed, *)
(* is not the map the stage goes on mutating, and keeps its content over   *)
(* every later step of either stage; the Days already pushed stay as they  *)
(* were pushed.  (journal.Balance is no stage: it attaches no map.)        *)
C8_Snapshots ==
    [][ /\ \A i \in 1..Len(resCh) :
              /\ resCh'[i] = resCh[i]
              /\ resCh[i].Amounts # NoRef =>
                    /\ heap'[resCh[i].Amounts] = heap[resCh[i].Amounts]
                    /\ resCh[i].Amounts # amounts'
        /\ \A i \in 1..Len(valResCh) :
              /\ valResCh'[i] = valResCh[i]
              /\ vheap'[valResCh[i].Values] = vheap[valResCh[i].Values]
              /\ valResCh[i].Values # values'
        /\ (Len(resCh') > Len(resCh) /\ impl # "Balance") =>
              LET d == resCh'[Len(resCh')] IN
              /\ d.Amounts # NoRef
              /\ d.Amounts # amounts'
              /\ heap'[d.Amounts] = heap'[amounts']
        /\ Len(valResCh') > Len(valResCh) =>
              LET d == valResCh'[Len(valResCh')] IN
              /\ d.Values # values'
              /\ vheap'[d.Values] = vheap'[values']
      ]_vars

\* Both stages have pushed a Day and then changed their running map: the
\* first Day's Amounts and Values differ from the running maps.
C8_Witness ==
    /\ Len(resCh) = 2 /\ Len(valResCh) = 2
    /\ heap[resCh[1].Amounts] # heap[amounts]
    /\ heap[resCh[1].Amounts] # heap[resCh[2].Amounts]
    /\ vheap[valResCh[1].Values] # vheap[values]
    /\ vheap[valResCh[1].Values] # vheap[valResCh[2].Values]

---------------------------------------------------------------------------
(* What a step of the assembler's loop filed, read off the Journal.        *)

Fields == {"Prices", "Assertions", "Values", "Openings", "Transactions", "Closings"}

FieldOf(kind) ==
    CASE kind = "Open" -> "Openings"
      [] kind = "Price" -> "Prices"
      [] kind = "Transaction" -> "Transactions"
      [] kind = "Assertion" -> "Assertions"
      [] kind = "Value" -> "Values"
      [] kind = "Close" -> "Closings"

ListOf(j, date, f) == IF date \in DOMAIN j.Days THEN j.Days[date][f] ELSE <<>>

DatesOf(seq) == {seq[i].Date : i \in 1..Len(seq)}

\* The Journal after the step is the Journal before it with the sequence
\* added appended, each element to the list f of the Day of its date.
FiledExactly(added, f) ==
    /\ DOMAIN journal'.Days = DOMAIN journal.Days \cup DatesOf(added)
    /\ \A date \in DOMAIN journal'.Days :
          /\ journal'.Days[date].Date = date
          /\ \A g \in Fields :
                ListOf(journal', date, g) =
                    ListOf(journal, date, g)
                    \o (IF g = f THEN SelectSeq(added, LAMBDA x : x.Date = date) ELSE <<>>)

---------------------------------------------------------------------------
(* C9 (as amended): Source2 pushes no Day while it reads directives, and   *)
(* none at all when the upstream ends with an error; the Days it pushes    *)
(* are the Journal's Days, one per date, in strictly ascending date order; *)
(* and when it returns without a cancellation it has pushed exactly one    *)
(* Day for every date on which a directive or an accrual expansion was     *)
(* filed, whatever the order of arrival.  (A date whose directives the     *)
(* filter all drops gets no Day.)                                          *)
C9_SortedEmission ==
    [][ /\ apc' \in {"parsing", "failed"} => srcCh' = <<>>
        /\ srcCh' # srcCh =>
              /\ apc = "emitting"
              /\ Len(srcCh') = Len(srcCh) + 1
              /\ \A i \in 1..Len(srcCh) : srcCh'[i] = srcCh[i]
              /\ journal' = journal /\ read' = read
        /\ \A i, j \in 1..Len(srcCh') : i < j => srcCh'[i].Date < srcCh'[j].Date
        /\ \A i \in 1..Len(srcCh') :
              /\ srcCh'[i].Date \in DOMAIN journal'.Days
              /\ srcCh'[i] = journal'.Days[srcCh'[i].Date]
        /\ apc' = "done" => DatesOf(srcCh') = DOMAIN journal'.Days
        /\ read'.n # read.n => DOMAIN journal'.Days = DOMAIN journal.Days \cup DatesOf(alast'.added)
        /\ DOMAIN journal'.Days \subseteq read'.dates \cup
              UNION {{a.T0 + k : k \in 0..(a.T1 - a.T0)} : a \in Accruals}
      ]_vars

\* C9 as stated: when Source2 has returned, the dates of the Days pushed
\* are the dates of the directives read.
C9_Original ==
    apc = "done" => DatesOf(srcCh) = read.dates

\* Two Days were pushed in date order although the only directive of the
\* first Day arrived last.
C9_Witness ==
    /\ apc = "done"
    /\ Len(srcCh) = 2
    /\ alast.kind = "Open"
    /\ alast.directive.Date = srcCh[1].Date
    /\ srcCh[1].Openings = <<alast.directive>>
    /\ read.n = MaxParsed

---------------------------------------------------------------------------
(* C10: under the filter the assembler files a Transaction with exactly    *)
(* the postings the filter accepts (credit or debit account matches, and   *)
(* the commodity matches), in their order, and files nothing of it iff no  *)
(* posting remains (with an accrual addon it files the expansions of the   *)
(* remaining posting instead of the transaction); it files an Assertion or *)
(* a Value iff account and commodity match, a Close iff its account        *)
(* matches, and every Open and every Price.                                *)
C10_Filter ==
    [][ read'.n # read.n =>
          LET d == alast'.directive
              k == alast'.kind
              acc(a) == a \in filter.accounts
              com(c) == c \in filter.commodities
              added == alast'.added
          IN /\ FiledExactly(added, FieldOf(k))
             /\ k \in {"Open", "Price"} => added = <<d>>
             /\ k \in {"Assertion", "Value"} =>
                   added = IF acc(d.Account) /\ com(d.Commodity) THEN <<d>> ELSE <<>>
             /\ k = "Close" => added = IF acc(d.Account) THEN <<d>> ELSE <<>>
             /\ k = "Transaction" =>
                   LET remain == SelectSeq(d.Postings,
                                    LAMBDA q : (acc(q.Credit) \/ acc(q.Debit)) /\ com(q.Commodity))
                   IN /\ added = <<>> <=> remain = <<>>
                      /\ (remain # <<>> /\ d.AddOns = <<>>) =>
                            added = <<[d EXCEPT !.Postings = remain]>>
                      /\ (remain # <<>> /\ d.AddOns # <<>>) =>
                            \A i \in 1..Len(added) :
                               /\ Len(added[i].Postings) = 1
                               /\ added[i].Postings[1].Commodity = remain[1].Commodity
                               /\ {added[i].Postings[1].Credit, added[i].Postings[1].Debit}
                                     \subseteq {remain[1].Credit, remain[1].Debit,
                                                d.AddOns[1].Account}
      ]_vars

\* A transaction of two postings lost one of them to the filter and was
\* pushed with the other.
C10_Witness ==
    /\ apc = "done"
    /\ alast.kind = "Transaction"
    /\ Len(alast.directive.Postings) = 2
    /\ Len(alast.added) = 1
    /\ Len(alast.added[1].Postings) = 1
    /\ \E i \in 1..Len(srcCh) : alast.added[1] \in Range(srcCh[i].Transactions)

---------------------------------------------------------------------------
(* What Expand returned: the period transactions carry the accrual         *)
(* description, the transaction on the original date carries the original. *)

PeriodTransactions(out) == SelectSeq(out, LAMBDA t : Len(t.Description) = 4)

OriginalDated(out) == SelectSeq(out, LAMBDA t : Len(t.Description) = 1)

RECURSIVE SumAmounts(_)
SumAmounts(ts) ==
    IF ts = <<>> THEN 0 ELSE Head(ts).Postings[1].Amount + SumAmounts(Tail(ts))

NumPeriods == xin.accrual.T1 - xin.accrual.T0 + 1

---------------------------------------------------------------------------
(* C11: when Expand emits period transactions for a posting of amount x    *)
(* over N >= 1 periods, it emits N of them, their amounts sum to x, every  *)
(* period after the first gets the quotient of x by N and the first gets   *)
(* the quotient plus the remainder of the division.                        *)
C11_ShareSum ==
    (xin.pc = "returned" /\ PeriodTransactions(xout) # <<>>) =>
        LET ps == PeriodTransactions(xout)
            x == xin.t.Postings[1].Amount
            N == NumPeriods
            q == x \div N
            r == x % N
        IN /\ N >= 1
           /\ Len(ps) = N
           /\ SumAmounts(ps) = x
           /\ ps[1].Postings[1].Amount = q + r
           /\ \A i \in 2..N : ps[i].Postings[1].Amount = q
           /\ \A i \in 1..N : Len(ps[i].Postings) = 1

C11_Witness ==
    /\ xin.pc = "returned"
    /\ NumPeriods = 3
    /\ xin.t.Postings[1].Amount = 5
    /\ Len(PeriodTransactions(xout)) = 3
    /\ PeriodTransactions(xout)[1].Postings[1].Amount = 3
    /\ PeriodTransactions(xout)[2].Postings[1].Amount = 1

---------------------------------------------------------------------------
(* The expansion of a posting with one AL leg and one IE leg, as the claim *)
(* states it (period postings credit the accrual account and debit the IE  *)
(* leg, the original-dated posting credits the AL leg and debits the       *)
(* accrual account) and as Expand keeps the direction of the posting.      *)

OneALOneIE(p) ==
    (IsAL(p.Credit) /\ IsIE(p.Debit)) \/ (IsIE(p.Credit) /\ IsAL(p.Debit))

ALLeg(p) == IF IsAL(p.Credit) THEN p.Credit ELSE p.Debit

IELeg(p) == IF IsIE(p.Credit) THEN p.Credit ELSE p.Debit

SameTransaction(t, u) ==
    t.Date = u.Date /\ t.Description = u.Description /\ t.Postings = u.Postings

\* The N + 1 transactions of an expansion: period i is dated at the end of
\* period i and posts its share from periodCr to periodDr, the last one is
\* dated and described as the original and posts the full amount.
IsExpansion(out, periodCr, periodDr, singleCr, singleDr) ==
    LET p == xin.t.Postings[1]
        N == NumPeriods
        q == p.Amount \div N
        r == p.Amount % N
    IN /\ Len(out) = N + 1
       /\ \A i \in 1..N :
            /\ out[i].Date = xin.accrual.T0 + i - 1
            /\ out[i].Postings =
                 <<[Credit |-> periodCr, Debit |-> periodDr, Commodity |-> p.Commodity,
                    Amount |-> IF i = 1 THEN q + r ELSE q]>>
       /\ out[N + 1].Date = xin.t.Date
       /\ out[N + 1].Description = xin.t.Description
       /\ out[N + 1].Postings =
            <<[Credit |-> singleCr, Debit |-> singleDr, Commodity |-> p.Commodity,
               Amount |-> p.Amount]>>
       /\ \A i \in 1..(N + 1) : ~SameTransaction(out[i], xin.t)

---------------------------------------------------------------------------
(* C12 (as amended): for a one-posting transaction with one AL leg and one *)
(* IE leg and an accrual over N >= 1 periods whose account is neither leg, *)
(* Expand returns exactly N transactions dated at the period ends plus one *)
(* on the original date, and keeps the direction of the posting: when the  *)
(* AL leg is the credit the periods post (accrual account -> IE leg) and   *)
(* the original date posts (AL leg -> accrual account); when the IE leg is *)
(* the credit the periods post (IE leg -> accrual account) and the         *)
(* original date posts (accrual account -> AL leg).  The original          *)
(* transaction is not among the results.                                   *)
C12_Expansion ==
    (/\ xin.pc = "returned"
     /\ OneALOneIE(xin.t.Postings[1])
     /\ xin.accrual.Account \notin {xin.t.Postings[1].Credit, xin.t.Postings[1].Debit}) =>
        LET p == xin.t.Postings[1]
            acc == xin.accrual.Account
        IN IF IsAL(p.Credit)
           THEN IsExpansion(xout, acc, IELeg(p), ALLeg(p), acc)
           ELSE IsExpansion(xout, IELeg(p), acc, acc, ALLeg(p))

\* C12 as stated: whatever the direction of the posting and whatever the
\* accrual account, the periods post (accrual account -> IE leg) and the
\* original date posts (AL leg -> accrual account).
C12_Original ==
    (xin.pc = "returned" /\ OneALOneIE(xin.t.Postings[1])) =>
        LET p == xin.t.Postings[1]
            acc == xin.accrual.Account
        IN IsExpansion(xout, acc, IELeg(p), ALLeg(p), acc)

C12_Witness ==
    /\ xin.pc = "returned"
    /\ xin.t.Postings[1] = [Credit |-> Cash, Debit |-> Rent, Commodity |-> "USD", Amount |-> 3]
    /\ xin.accrual = [Account |-> Receivable, T0 |-> 1, T1 |-> 3]
    /\ xin.t.Date = 1
    /\ Len(xout) = 4
    /\ \A i \in 1..3 : xout[i].Postings[1].Amount = 1 /\ xout[i].Date = i
    /\ xout[4].Postings[1] = [Credit |-> Cash, Debit |-> Receivable, Commodity |-> "USD", Amount |-> 3]

---------------------------------------------------------------------------
(* The valuation step of a Day, read off the Days.  Under the Valuator the *)
(* val.Day carries the valuated copies of the transactions, whose Amount   *)
(* is the value; under journal.Balance each posting carries its Value.     *)

IsGain(t) == Len(t.Description) = 4 /\ t.Description[1] = "Adjust value of"

\* amount * normalized_price(k), or the amount itself for the valuation
\* commodity.
PostingValue(prices, k, x) == IF k = valuation THEN x ELSE x * prices[k]

Priced(prices, ts) ==
    \A i \in 1..Len(ts) : \A j \in 1..Len(ts[i].Postings) :
        ts[i].Postings[j].Commodity \in DOMAIN prices \cup {valuation}

\* What the postings of the transactions ts book on position (a, k): under
\* the Valuator the debit leg gains and the credit leg loses the Amount of
\* the valuated posting, under journal.Balance the posting of account a
\* contributes its Value.
RECURSIVE BookedValue(_, _, _)
BookedValue(ps, a, k) ==
    IF ps = <<>> THEN 0
    ELSE LET p == Head(ps)
             x == IF p.Commodity # k THEN 0
                  ELSE IF "Value" \in DOMAIN p
                  THEN (IF p.Account = a THEN p.Value ELSE 0)
                  ELSE (IF p.Debit = a THEN p.Amount ELSE 0) - (IF p.Credit = a THEN p.Amount ELSE 0)
         IN x + BookedValue(Tail(ps), a, k)

AllPostings(ts) == Flatten([i \in 1..Len(ts) |-> ts[i].Postings])

\* A step of the Valuator that pushes a Day.
ValuatorPushes == vpc = "run" /\ Len(valResCh') = Len(valResCh) + 1

\* The valuation step of journal.Balance went through.
BalanceValuated == impl = "Balance" /\ pc # "valuated" /\ pc' = "valuated"

ALPositions == {<<a, k>> : a \in {b \in AllAccounts : IsAL(b)}, k \in Commodities}

---------------------------------------------------------------------------
(* C13: with a valuation commodity V, after the valuation step of a Day    *)
(* whose commodities have a price, every posting of every transaction of   *)
(* the Day has value = amount * normalized_price(k) when k # V and value = *)
(* amount when k = V, and values[(a,k)] of every asset/liability position  *)
(* has grown by exactly the values the Day's postings book on it (those of *)
(* the gain transactions of the same step included).                       *)
C13_PostingValues ==
    [][/\ (ValuatorPushes /\ valuation # NoValuation) =>
            LET n == Len(valResCh')
                d == resCh[n]
                vd == valResCh'[n]
            IN Priced(vd.Prices, d.Transactions) =>
                /\ Len(vd.Transactions) >= Len(d.Transactions)
                /\ \A i \in 1..Len(d.Transactions) :
                     /\ Len(vd.Transactions[i].Postings) = Len(d.Transactions[i].Postings)
                     /\ \A j \in 1..Len(d.Transactions[i].Postings) :
                          LET p == d.Transactions[i].Postings[j] IN
                          vd.Transactions[i].Postings[j] =
                              [p EXCEPT !.Amount = PostingValue(vd.Prices, p.Commodity, p.Amount)]
                /\ \A pos \in ALPositions :
                     Amount(vheap'[vd.Values], pos) =
                        Amount(vheap[values], pos)
                          + BookedValue(AllPostings(vd.Transactions), pos[1], pos[2])
       /\ BalanceValuated =>
            /\ \A i \in 1..Len(day'.Transactions) :
                 ~IsGain(day'.Transactions[i]) =>
                    \A j \in 1..Len(day'.Transactions[i].Postings) :
                        LET p == day'.Transactions[i].Postings[j] IN
                        p.Value = PostingValue(day'.Normalized, p.Commodity, p.Amount)
            /\ \A pos \in ALPositions :
                 Amount(vheap'[values'], pos) =
                    Amount(vheap[values], pos)
                      + BookedValue(AllPostings(day'.Transactions), pos[1], pos[2])
      ]_vars

\* A posting of 1 EUR at the price 2 is valued 2.
C13_Witness ==
    /\ impl = "Process2"
    /\ valuation = "USD"
    /\ \E n \in 1..Len(valResCh) :
        /\ "EUR" \in DOMAIN valResCh[n].Prices
        /\ valResCh[n].Prices["EUR"] = 2
        /\ \E i \in 1..Len(resCh[n].Transactions) :
            /\ resCh[n].Transactions[i].Postings[1].Commodity = "EUR"
            /\ resCh[n].Transactions[i].Postings[1].Amount = 1
            /\ resCh[n].Transactions[i].Postings[1].Debit = Cash
            /\ valResCh[n].Transactions[i].Postings[1].Amount = 2
            /\ Amount(vheap[valResCh[n].Values], <<Cash, "EUR">>) = 2

---------------------------------------------------------------------------
(* The gain transactions of a valuation step.                              *)

GainsOf(ts) == SelectSeq(ts, IsGain)

NotGainsOf(ts) == SelectSeq(ts, LAMBDA t : ~IsGain(t))

GainFor(ts, pos) ==
    SelectSeq(ts, LAMBDA t : t.Description = <<"Adjust value of", pos[2], "in account", pos[1]>>)

\* The asset/liability positions of a position map in a commodity other
\* than the valuation commodity.
GainPositions(am) == {pos \in DOMAIN am : IsAL(pos[1]) /\ pos[2] # valuation}

\* What is stated of the position pos of amount x on a Day dated date: with
\* booked the value held after the Day's postings, gain = x * price -
\* booked; a nonzero gain gets exactly one transaction, dated as the Day,
\* that moves the gain from the valuation account to the account, and the
\* value of the position ends at booked + gain.
GainBooked(ts, date, prices, pos, x, booked, after) ==
    LET gain == x * prices[pos[2]] - booked
        mine == GainFor(ts, pos)
        valAcc == ValuationAccountFor(pos[1])
    IN /\ Len(mine) = IF gain # 0 THEN 1 ELSE 0
       /\ after = booked + gain
       /\ gain # 0 =>
            /\ mine[1].Date = date
            /\ BookedValue(mine[1].Postings, pos[1], pos[2]) = gain
            /\ \A j \in 1..Len(mine[1].Postings) :
                 LET p == mine[1].Postings[j] IN
                 /\ p.Commodity = pos[2]
                 /\ IF "Value" \in DOMAIN p
                    THEN /\ p.Amount = 0
                         /\ {p.Account, p.Other} = {valAcc, pos[1]}
                         /\ p.Value = IF p.Account = pos[1] THEN gain ELSE 0 - gain
                    ELSE /\ Len(mine[1].Postings) = 1
                         /\ IF gain > 0
                            THEN p.Credit = valAcc /\ p.Debit = pos[1] /\ p.Amount = gain
                            ELSE p.Credit = pos[1] /\ p.Debit = valAcc /\ p.Amount = 0 - gain

---------------------------------------------------------------------------
---------------------------------------------------------------------------
(* The Days a valuation step has gone over, with the prices it used.       *)

ValuatedDays ==
    IF impl = "Balance"
    THEN [i \in 1..Len(resCh) |->
            [Prices |-> resCh[i].Normalized, Transactions |-> resCh[i].Transactions]]
         \o (IF pc \in {"valuated", "closings"} \/ (pc = "failed" /\ last.kind = "valuate")
             THEN <<[Prices |-> day.Normalized, Transactions |-> day.Transactions]>>
             ELSE <<>>)
    ELSE [i \in 1..Len(valResCh) |->
            [Prices |-> valResCh[i].Prices, Transactions |-> valResCh[i].Transactions]]

ConstantPrices(days) == \A i, j \in 1..Len(days) : days[i].Prices = days[j].Prices

---------------------------------------------------------------------------
(* C15: when the prices are the same on every Day valuated so far, no gain *)
(* ("Adjust value") transaction has been synthesised on any of them,       *)
(* whatever postings, value directives and closings the Days hold.         *)
C15_NoGainAtConstantPrices ==
    (valuation # NoValuation /\ ConstantPrices(ValuatedDays)) =>
        \A i \in 1..Len(ValuatedDays) : GainsOf(ValuatedDays[i].Transactions) = <<>>

\* Two Days at the price 2, a position of 1 EUR from the first Day that a
\* value directive of the second Day changes: no gain transaction.
C15_Witness ==
    /\ impl = "Process2"
    /\ valuation = "USD"
    /\ Len(valResCh) = 2
    /\ valResCh[1].Prices = [c \in {"EUR"} |-> 2]
    /\ valResCh[2].Prices = [c \in {"EUR"} |-> 2]
    /\ Amount(heap[resCh[1].Amounts], <<Cash, "EUR">>) = 1
    /\ Amount(heap[resCh[2].Amounts], <<Cash, "EUR">>) = 0 - 1
    /\ Len(resCh[2].Values) = 1
    /\ Amount(vheap[valResCh[2].Values], <<Cash, "EUR">>) = 0 - 2
    /\ \A i \in 1..2 : GainsOf(valResCh[i].Transactions) = <<>>

---------------------------------------------------------------------------
(* The Days of an engine run, from the sink back to the feeder: what the   *)
(* sink appended, then for each stage from the last to the first the       *)
(* content of its output channel and the Day it holds, then the content of *)
(* the first channel and the elements the feeder has not pushed yet.       *)

Held(s) == IF workers[s].pc = "push" THEN <<workers[s].t>> ELSE <<>>

RECURSIVE Upstream(_)
Upstream(i) ==
    chans[i] \o (IF i = 0
                 THEN SubSeq(Ts, workers[Feeder].t, NumDays)
                 ELSE Held(i) \o Upstream(i - 1))

Stream == res \o Upstream(NumStages)

StrictlyIncreasing(seq) == \A i \in 1..(Len(seq) - 1) : seq[i] < seq[i + 1]

NoWorkerFailed == \A w \in 0..Sink : workers[w].err = Nil

(* C16: in every state of an engine run the Days in flight, read from the  *)
(* sink back to the feeder, are in the feeder's order without repetition   *)
(* (no stage reorders, duplicates or lets a Day overtake another); while   *)
(* no worker has returned an error they are exactly the feeder's Days      *)
(* (none is dropped), and a run that returns nil has handed the sink       *)
(* exactly the feeder's sequence.                                          *)
C16_Order ==
    /\ StrictlyIncreasing(Stream)
    /\ StrictlyIncreasing(res)
    /\ NoWorkerFailed => Stream = Ts
    /\ (ret.pc = "returned" /\ ret.err = Nil) => res = Ts

\* A run has returned nil and the sink has appended every Day.
C16_Witness ==
    /\ ret.pc = "returned"
    /\ ret.err = Nil
    /\ res = Ts
    /\ Len(res) = NumDays

(* C17: the error the group records is the error of a stage, recorded      *)
(* while ctx was not yet cancelled, and it cancels ctx; it is never        *)
(* replaced; the engine returns the recorded error, which is a stage error *)
(* (not nil, not the cancellation error) whenever a stage returned one.    *)
C17_FirstError ==
    [][ /\ gErr # Nil => gErr' = gErr
        /\ (gErr = Nil /\ gErr' # Nil) =>
              /\ gErr'.kind = "stage"
              /\ workers[gErr'.stage].err = gErr'
              /\ ~ctxDone
              /\ ctxDone'
        /\ ret'.pc = "returned" =>
              /\ ret'.err = gErr'
              /\ (\E s \in Stages : workers'[s].err.kind = "stage") =>
                    ret'.err.kind = "stage"
      ]_vars

\* The engine has returned a stage error although other workers returned
\* the cancellation error.
C17_Witness ==
    /\ ret.pc = "returned"
    /\ ret.err.kind = "stage"
    /\ \E w \in 0..Sink : workers[w].err = Canceled

(* C18: under fair scheduling every engine run reaches the state where     *)
(* the feeder, every stage and the sink have returned and Wait has         *)
(* returned.                                                               *)
C18_Terminates ==
    <>(ret.pc = "returned" /\ \A w \in 0..Sink : workers[w].pc = "done")

\* The run has returned after a stage error while the first channel was
\* full and the feeder still had Days to push: the feeder left its
\* blocked send through the cancellation.
C18_Witness ==
    /\ ret.pc = "returned"
    /\ ret.err.kind = "stage"
    /\ Len(chans[Feeder]) = bufSize
    /\ workers[Feeder].t <= NumDays
    /\ workers[Feeder].err = Canceled
    /\ \A w \in 0..Sink : workers[w].pc = "done"

---------------------------------------------------------------------------
(* The tasks of the format command that have started and not ended.        *)

RunningBad == {i \in fails : tasks.bad[i] \in {"run", "send", "release"}}

Running == tasks.good + Cardinality(RunningBad)

AllTasksEnded ==
    /\ disp.next > disp.n
    /\ Running = 0

(* C19: in both versions of the format command, in every state at most     *)
(* concurrency = 10 tasks have started and not ended, and they are never   *)
(* more than the values held by the semaphore channel.                     *)
C19_Bounded ==
    /\ Running <= concurrency
    /\ (fret.pc = "running" /\ ~fctx) => Running <= sema
    /\ sema <= concurrency

\* Ten tasks run and the loop holds an eleventh file back.
C19_Witness ==
    /\ Running = concurrency
    /\ sema = concurrency
    /\ disp.n = MaxFiles
    /\ disp.next = MaxFiles
    /\ tasks.good = concurrency

(* C20, as claimed: whenever the format command has returned (its context  *)
(* not having been cancelled), every task has ended, and the result holds  *)
(* exactly the errors of the failing files: nil iff no file failed,        *)
(* otherwise each failing file's error.                                    *)
C20_Original ==
    (fret.pc = "returned" /\ ~fctx) =>
        /\ AllTasksEnded
        /\ fret.errors = <<>> <=> fails = {}
        /\ Range(fret.errors) = fails

---------------------------------------------------------------------------
(* C23: the posting NewPosting and NewPostingWithTargets return has an     *)
(* amount >= 0; for a negative argument its accounts are the arguments     *)
(* swapped and its amount the argument negated, otherwise it carries the   *)
(* arguments; and booking it changes the position map exactly as booking   *)
(* the signed argument between the accounts as given would.                *)
C23_Constructor ==
    xin.pc \in {"NewPosting", "NewPostingWithTargets"} =>
        LET p == xout.posting IN
        /\ p.Amount >= 0
        /\ p.Commodity = xin.commodity
        /\ IF xin.amt < 0
           THEN p.Credit = xin.drAccount /\ p.Debit = xin.crAccount /\ p.Amount = 0 - xin.amt
           ELSE p.Credit = xin.crAccount /\ p.Debit = xin.drAccount /\ p.Amount = xin.amt
        /\ xout.amounts = Book(xin.m, xin.crAccount, xin.drAccount, xin.amt, xin.commodity)
        /\ \A k \in DOMAIN xout.amounts :
              xout.amounts[k] =
                 Amount(xin.m, k)
                 - (IF k = <<xin.crAccount, xin.commodity>> THEN xin.amt ELSE 0)
                 + (IF k = <<xin.drAccount, xin.commodity>> THEN xin.amt ELSE 0)

\* A posting was built from a negative amount between two different
\* accounts and booked on a map that holds a position of one of them.
C23_Witness ==
    /\ xin.pc = "NewPosting"
    /\ xin.amt < 0
    /\ xin.crAccount # xin.drAccount
    /\ xout.posting.Credit = xin.drAccount
    /\ xout.posting.Amount > 0
    /\ <<xin.crAccount, xin.commodity>> \in DOMAIN xin.m
    /\ xout.amounts # xin.m

---------------------------------------------------------------------------
(* What the handler has consumed of the Day so far.                        *)

NoneOf(d, fs) == \A f \in fs : d[f] = <<>>

AccountsOf(t) == UNION {PostingAccounts(t.Postings[i]) : i \in 1..Len(t.Postings)}

AccountsIn(list) == {list[i].Account : i \in 1..Len(list)}

(* C27: in each of the three variants the handler of a Day consumes the    *)
(* openings before any transaction, the transactions before any value      *)
(* directive, the value directives before any assertion and the            *)
(* assertions before any closing.  So a transaction is accepted iff the    *)
(* accounts of its postings are open counting the Day's openings and not   *)
(* counting its closings, and an assertion is accepted iff its account is  *)
(* open and the position after all the Day's transactions and value        *)
(* adjustments exists and equals the asserted amount.                      *)
C27_FixedOrder ==
    [][ /\ last'.kind = "open" =>
              NoneOf(day, {"Transactions", "Values", "Assertions", "Closings"})
        /\ last'.kind = "transaction" =>
              /\ NoneOf(day, {"Values", "Assertions", "Closings"})
              /\ AccountsIn(day.Openings) \subseteq open
              /\ last'.ok <=> \A a \in AccountsOf(last'.trx) : AccountIsOpen(impl, open, a)
        /\ last'.kind = "value" => NoneOf(day, {"Assertions", "Closings"})
        /\ last'.kind = "assertion" =>
              /\ NoneOf(day, {"Closings"})
              /\ heap' = heap
              /\ LET as == last'.assertion
                     position == <<as.Account, as.Commodity>>
                 IN last'.ok <=>
                       /\ AccountIsOpen(impl, open, as.Account)
                       /\ position \in DOMAIN heap[amounts]
                       /\ heap[amounts][position] = as.Amount
        /\ last'.kind = "push" =>
              LET d == resCh'[Len(resCh')] IN
              /\ AccountsIn(d.Closings) \cap open' = {}
              /\ \A a \in AccountsIn(d.Openings) \ AccountsIn(d.Closings) : a \in open'
      ]_vars

\* A Day was accepted that opens an account, posts to it, sets its
\* position by a value directive and closes it.
C27_Witness ==
    /\ last.kind = "push"
    /\ LET d == resCh[Len(resCh)] IN
       \E a \in AccountsIn(d.Openings) \cap AccountsIn(d.Closings) :
           /\ \E i \in 1..Len(d.Transactions) : a \in AccountsOf(d.Transactions[i])
           /\ a \in AccountsIn(d.Values)

---------------------------------------------------------------------------
IsSortedTransactions(ts) ==
    \A i, j \in 1..Len(ts) : i < j => ~CompareTransactions(ts[j], ts[i])

(* C28, as claimed: the transactions of every Day the Balancer has emitted *)
(* are sorted by CompareTransactions.                                      *)
C28_Original ==
    \A i \in 1..Len(resCh) : IsSortedTransactions(resCh[i].Transactions)

---------------------------------------------------------------------------
(* C29: when a Day is emitted, for every assertion of the Day the lookup   *)
(* of its position in the Day's snapshot (in the running map for           *)
(* journal.Balance, which attaches none) gives the asserted amount; the    *)
(* position itself is in the snapshot unless the Day closes the account.   *)
C29_AssertedAmounts ==
    [][ last'.kind = "push" =>
          LET d == resCh'[Len(resCh')]
              m == IF d.Amounts = NoRef THEN heap'[amounts'] ELSE heap'[d.Amounts]
          IN \A i \in 1..Len(d.Assertions) :
                LET as == d.Assertions[i]
                    position == <<as.Account, as.Commodity>>
                IN /\ Amount(m, position) = as.Amount
                   /\ as.Account \notin AccountsIn(d.Closings) =>
                         position \in DOMAIN m /\ m[position] = as.Amount
                   /\ as.Account \in AccountsIn(d.Closings) =>
                         position \notin DOMAIN m /\ as.Amount = 0
      ]_vars

\* A Day was emitted with an assertion on an account the Day closes: the
\* snapshot has no position of the account.
C29_Witness ==
    /\ last.kind = "push"
    /\ impl = "Process2"
    /\ LET d == resCh[Len(resCh)] IN
       /\ d.Amounts # NoRef
       /\ \E i \in 1..Len(d.Assertions) :
             /\ d.Assertions[i].Account \in AccountsIn(d.Closings)
             /\ <<d.Assertions[i].Account, d.Assertions[i].Commodity>> \notin DOMAIN heap[d.Amounts]

---------------------------------------------------------------------------
(* The postings whose two legs have the same kind of account.              *)
BothIE(posting) == IsIE(posting.Credit) /\ IsIE(posting.Debit)

BothAL(posting) == IsAL(posting.Credit) /\ IsAL(posting.Debit)

\* out is the N period transactions of the posting p itself, period i on
\* the end date of period i with the share of period i.
IsPeriodsOnly(out, p) ==
    LET N == NumPeriods
        q == p.Amount \div N
        r == p.Amount % N
    IN /\ Len(out) = N
       /\ \A i \in 1..N :
            /\ out[i].Date = xin.accrual.T0 + i - 1
            /\ out[i].Description = <<xin.t.Description[1], "accrual", i, N>>
            /\ out[i].Postings =
                 <<[Credit |-> p.Credit, Debit |-> p.Debit, Commodity |-> p.Commodity,
                    Amount |-> IF i = 1 THEN q + r ELSE q]>>

\* out is one transaction: the posting p on the original date under the
\* original description.
IsOriginalOnly(out, p) ==
    /\ Len(out) = 1
    /\ out[1].Date = xin.t.Date
    /\ out[1].Description = xin.t.Description
    /\ out[1].Postings = <<p>>

(* C30: when Expand returns, over N >= 1 periods: for a posting between    *)
(* two different IE accounts it returns exactly the N period transactions  *)
(* between these accounts and none on the original date; for a posting     *)
(* between two different AL accounts it returns exactly one transaction,   *)
(* on the original date, with the original credit, debit, commodity and    *)
(* amount; for a posting from an IE or an AL account to itself it returns  *)
(* nothing.                                                                *)
C30_SameKindLegs ==
    xin.pc = "returned" =>
        LET p == xin.t.Postings[1] IN
        /\ (BothIE(p) /\ p.Credit # p.Debit) => IsPeriodsOnly(xout, p)
        /\ (BothAL(p) /\ p.Credit # p.Debit) => IsOriginalOnly(xout, p)
        /\ ((BothIE(p) \/ BothAL(p)) /\ p.Credit = p.Debit) => xout = <<>>

\* C30 as stated: whatever the two IE legs, the N period transactions;
\* whatever the two AL legs, the one transaction on the original date.
C30_Original ==
    xin.pc = "returned" =>
        LET p == xin.t.Postings[1] IN
        /\ BothIE(p) => IsPeriodsOnly(xout, p)
        /\ BothAL(p) => IsOriginalOnly(xout, p)

\* Expand has returned the three period transactions of a posting of 5
\* from Income:Salary to Expenses:Rent: 3, 1 and 1, none on the original
\* date.
C30_Witness ==
    /\ xin.pc = "returned"
    /\ xin.t.Postings[1] = [Credit |-> Salary, Debit |-> Rent, Commodity |-> "USD", Amount |-> 5]
    /\ xin.accrual.T0 = 1
    /\ xin.accrual.T1 = 3
    /\ Len(xout) = 3
    /\ OriginalDated(xout) = <<>>
    /\ xout[1].Postings[1] = [Credit |-> Salary, Debit |-> Rent, Commodity |-> "USD", Amount |-> 3]
    /\ xout[3].Postings[1] = [Credit |-> Salary, Debit |-> Rent, Commodity |-> "USD", Amount |-> 1]

---------------------------------------------------------------------------
(* The postings of the Days Source2 pushed.                                *)
RECURSIVE NumPostings(_)
NumPostings(ts) == IF ts = <<>> THEN 0 ELSE Len(Head(ts).Postings) + NumPostings(Tail(ts))

RECURSIVE EmittedPostings(_)
EmittedPostings(days) ==
    IF days = <<>> THEN 0
    ELSE NumPostings(Head(days).Transactions) + EmittedPostings(Tail(days))

\* Every transaction of the input that carries an accrual has one posting.
AccrualsOnOnePosting(ts) ==
    \A i \in 1..Len(ts) : ts[i].AddOns # <<>> => Len(ts[i].Postings) = 1

---------------------------------------------------------------------------
(* Value directives that do not interact.  Two of them on one position     *)
(* interact; so do two where one values the position the adjustment of the *)
(* other is booked against, the valuation account of its account in its    *)
(* commodity.                                                              *)
OnDifferentPositions(vs) ==
    \A i, j \in 1..Len(vs) :
        i # j => <<vs[i].Account, vs[i].Commodity>> # <<vs[j].Account, vs[j].Commodity>>

OffValuationAccounts(vs) ==
    \A i, j \in 1..Len(vs) :
        i # j => <<vs[i].Account, vs[i].Commodity>> #
                    <<ValuationAccountFor(vs[j].Account), vs[j].Commodity>>

ValuesPermuted == "Values" \in xin.flips

(* C25: when the run over a Day passes, the run over the same Day with its *)
(* openings, transactions or closings permuted, and with its value         *)
(* directives permuted where these are on different positions and none is  *)
(* on the valuation account of another in the same commodity, passes too   *)
(* and leaves an identical position map.                                   *)
C25_Permutation ==
    (/\ xin.pc = "returned"
     /\ xout.first.err = NoError
     /\ ValuesPermuted => (OnDifferentPositions(xin.d.Values) /\ OffValuationAccounts(xin.d.Values))) =>
        /\ xout.second.err = NoError
        /\ xout.second.amounts = xout.first.amounts

\* C25 as stated: value directives on different positions count as
\* non-interacting.
C25_Original ==
    (/\ xin.pc = "returned"
     /\ xout.first.err = NoError
     /\ ValuesPermuted => OnDifferentPositions(xin.d.Values)) =>
        /\ xout.second.err = NoError
        /\ xout.second.amounts = xout.first.amounts

\* Both runs passed over a Day with two different transactions and two
\* value directives on different accounts, all four lists permuted in the
\* second run, and left the same nonempty map.
C25_Witness ==
    /\ xin.pc = "returned"
    /\ xin.flips = PermutedLists
    /\ Len(xin.d.Transactions) = 2
    /\ xin.d.Transactions[1] # xin.d.Transactions[2]
    /\ Len(xin.d.Values) = 2
    /\ xin.d.Values[1].Account = Cash
    /\ xin.d.Values[2].Account = Salary
    /\ Len(xin.d.Closings) = 1
    /\ xin.d.Assertions # <<>>
    /\ xout.first.err = NoError
    /\ xout.second.err = NoError
    /\ xout.second.amounts = xout.first.amounts
    /\ <<Cash, "USD">> \in DOMAIN xout.first.amounts

---------------------------------------------------------------------------
(* The source text with the span of every directive replaced by what the   *)
(* directive writes and everything else copied, from position pos on.      *)
RECURSIVE Rewritten(_, _, _)
Rewritten(text, ds, pos) ==
    IF ds = <<>> THEN SubSeq(text, pos + 1, Len(text))
    ELSE SubSeq(text, pos + 1, Head(ds).Start) \o Head(ds).Text
            \o Rewritten(text, Tail(ds), Head(ds).End)

EndsWithNewline(text) == text # <<>> /\ text[Len(text)] = "\n"

(* C21, as claimed: when Format has returned nil after io.EOF, what it     *)
(* wrote is the source text with every directive's span replaced by the    *)
(* directive's rendering and all other text copied, followed by a newline  *)
(* where that text does not end with one.                                  *)
C21_Original ==
    (xin.pc = "returned" /\ xin.ending = "EOF") =>
        LET expected == Rewritten(xin.src, xout.ds, 0) IN
        xout.dest = IF EndsWithNewline(expected) THEN expected ELSE Append(expected, "\n")

---------------------------------------------------------------------------
---------------------------------------------------------------------------
HasUnknownAddOn(t) == \E i \in 1..Len(t.AddOns) : t.AddOns[i] = UnknownAddOn

(* C31, as claimed: once the assembler has received a directive of an      *)
(* unknown kind, or a transaction that carries an unknown addon, it has    *)
(* returned an error and has pushed no Day.                                *)
C31_Original ==
    /\ alast.kind = "Unknown" => (apc = "failed" /\ srcCh = <<>>)
    /\ (alast.kind = "Transaction" /\ HasUnknownAddOn(alast.directive)) =>
            (apc = "failed" /\ srcCh = <<>>)

---------------------------------------------------------------------------
\* The price directives of the Days 1..n of the input, in order.
RECURSIVE PricesUpTo(_)
PricesUpTo(n) == IF n = 0 THEN <<>> ELSE PricesUpTo(n - 1) \o xin.days[n]

\* The latest Day up to n that has price directives, 0 when there is none.
RECURSIVE LatestPriced(_)
LatestPriced(n) ==
    IF n = 0 THEN 0 ELSE IF xin.days[n] # <<>> THEN n ELSE LatestPriced(n - 1)

(* C32: with a valuation commodity, the normalised prices of every Day    *)
(* are the normalisation of one price book that holds all price           *)
(* directives dated on or before the Day; a Day without price directives  *)
(* carries the normalisation of the latest earlier Day that had some, and *)
(* none when there was no such Day.                                       *)
C32_SingleBook ==
    xin.v # NoValuation =>
        \A n \in 1..Len(xout) :
            /\ xout[n].Normalized =
                   IF PricesUpTo(n) = <<>> THEN NoPrices
                   ELSE Normalize(InsertAll(NoBook, PricesUpTo(n)), xin.v)
            /\ xout[n].Prices = <<>> =>
                   xout[n].Normalized =
                       IF LatestPriced(n) = 0 THEN NoPrices
                       ELSE xout[LatestPriced(n)].Normalized

\* Day 1 prices CHF in EUR, Day 2 has no prices and carries Day 1's view
\* (CHF unreachable), Day 3 prices EUR in USD and CHF gets a two-hop price.
C32_Witness ==
    /\ xin.v = "USD"
    /\ Len(xout) = 3
    /\ xout[1].Prices # <<>>
    /\ xout[2].Prices = <<>>
    /\ xout[2].Normalized = xout[1].Normalized
    /\ "CHF" \notin DOMAIN xout[2].Normalized
    /\ "CHF" \in DOMAIN xout[3].Normalized
    /\ xout[3].Normalized["CHF"] = MaxPrice * MaxPrice

---------------------------------------------------------------------------
(* C33: after the valuation step of a Day, every asset/liability position *)
(* (a, k) of the Day's amounts with k other than the valuation commodity  *)
(* has values[(a,k)] = normalized_price(k) * amounts[(a,k)], the gain     *)
(* transactions of the Day included: on every Day the Valuator pushed and *)
(* on the Day journal.Balance has just valuated.                          *)
C33_ValuesFollowPrices ==
    valuation # NoValuation =>
        /\ \A n \in 1..Len(valResCh) :
              LET d == resCh[n]
                  am == IF d.Amounts = NoRef THEN EmptyAmounts ELSE heap[d.Amounts]
              IN \A pos \in GainPositions(am) :
                    /\ pos[2] \in DOMAIN valResCh[n].Prices
                    /\ Amount(vheap[valResCh[n].Values], pos) =
                           valResCh[n].Prices[pos[2]] * am[pos]
        /\ (impl = "Balance" /\ pc = "valuated") =>
              \A pos \in GainPositions(heap[amounts]) :
                    /\ pos[2] \in DOMAIN day.Normalized
                    /\ Amount(vheap[values], pos) = day.Normalized[pos[2]] * heap[amounts][pos]

\* journal.Balance has valuated a second Day at the price 2 after a first
\* Day at the price 1, with a gain transaction, and holds 1 EUR valued 2.
C33_Witness ==
    /\ impl = "Balance"
    /\ pc = "valuated"
    /\ valuation = "USD"
    /\ Len(resCh) = 1
    /\ resCh[1].Normalized = [c \in {"EUR"} |-> 1]
    /\ day.Normalized = [c \in {"EUR"} |-> 2]
    /\ Amount(heap[amounts], <<Cash, "EUR">>) = 1
    /\ GainsOf(day.Transactions) # <<>>
    /\ Amount(vheap[values], <<Cash, "EUR">>) = 2

---------------------------------------------------------------------------
(* C34, as claimed: a valuation step that meets a posting or a position   *)
(* without a price fails with a NoPrice error value and its Day is not    *)
(* emitted: the Valuator never panics and never pushes a Day that has a   *)
(* posting without a price, and journal.Balance ends such a Day with the  *)
(* error NoPrice.                                                         *)
C34_Original ==
    valuation # NoValuation =>
        /\ vpc # "panicked"
        /\ \A n \in 1..Len(valResCh) : Priced(valResCh[n].Prices, resCh[n].Transactions)
        /\ (impl = "Balance" /\ pc = "failed" /\ last.kind = "valuate") =>
               err = Error("NoPrice", <<>>, 0)

---------------------------------------------------------------------------
\* The goroutine of worker w has returned.
Returned(w) == workers[w].pc \in {"exit", "done"}

\* Worker w (a stage or the sink) saw its input closed and drained and
\* returned nil.
SawEndOfStream(w) == workers[w].pc = "done" /\ workers[w].err = Nil

(* C35, as claimed: an output channel is closed only when the stage's      *)
(* input was closed and the stage met no error, and once a stage has       *)
(* failed no worker after it sees a normal end of stream.                  *)
C35_Original ==
    /\ \A s \in 0..NumStages :
          closed[s] => (workers[s].err = Nil /\ (s >= 1 => closed[s - 1]))
    /\ \A s \in Stages : \A w \in (s + 1)..Sink :
          workers[s].err = StageError(s) => ~SawEndOfStream(w)

(* C35: every goroutine closes its output channel exactly when it returns, *)
(* with or without an error; nothing is sent on a closed channel; a stage  *)
(* or the sink returns nil only after it found its input closed and        *)
(* drained; and when some goroutine returned an error the engine returns   *)
(* an error, whatever end of stream the workers after it saw.              *)
C35_CloseOnReturn ==
    [][/\ \A s \in 0..NumStages :
            /\ closed'[s] <=> workers'[s].pc \in {"exit", "done"}
            /\ closed[s] => (closed'[s] /\ Len(chans'[s]) <= Len(chans[s]))
       /\ \A w \in 1..Sink :
            (workers'[w].pc = "done" /\ workers'[w].err = Nil /\ workers[w].pc # "done") =>
                (closed[w - 1] /\ chans[w - 1] = <<>>)
       /\ (ret'.pc = "returned" /\ \E w \in 0..Sink : workers'[w].err # Nil) =>
            ret'.err # Nil
      ]_vars

\* Stage 1 failed and closed its output; stage 2 and the sink saw the end
\* of stream and returned nil; the engine returned the error of stage 1.
C35_Witness ==
    /\ workers[1].err = StageError(1)
    /\ closed[1]
    /\ SawEndOfStream(2)
    /\ SawEndOfStream(Sink)
    /\ ret = [pc |-> "returned", err |-> StageError(1)]

---------------------------------------------------------------------------
(* C36: the step on which the Balancer fails pushes nothing and leaves the *)
(* Days pushed so far and their snapshots as they were; once it has failed *)
(* on the Day dated d, the Days pushed are the Days dated 1 .. d-1, in     *)
(* order, each (under Process2 and Process) with a snapshot of its own,    *)
(* and no later step pushes anything.                                      *)
C36_NothingFromFailedDay ==
    [][/\ pc' = "failed" =>
            /\ resCh' = resCh
            /\ \A i \in 1..Len(resCh) :
                  resCh[i].Amounts # NoRef =>
                      heap'[resCh[i].Amounts] = heap[resCh[i].Amounts]
            /\ Len(resCh') = day'.Date - 1
            /\ \A i \in 1..Len(resCh') :
                  /\ resCh'[i].Date = i
                  /\ impl # "Balance" =>
                        /\ resCh'[i].Amounts # NoRef
                        /\ resCh'[i].Amounts # amounts'
                        /\ \A j \in 1..Len(resCh') :
                              i # j => resCh'[i].Amounts # resCh'[j].Amounts
       /\ pc = "failed" => (pc' = "failed" /\ resCh' = resCh)
      ]_vars

\* Process2 failed on the second Day after it had changed the running
\* map: the first Day is pushed, its snapshot differs from the running map.
C36_Witness ==
    /\ impl = "Process2"
    /\ pc = "failed"
    /\ day.Date = 2
    /\ Len(resCh) = 1
    /\ day.Transactions # <<>>
    /\ heap[resCh[1].Amounts] # heap[amounts]

---------------------------------------------------------------------------
\* Every key of the position map m has an account that is open, equity
\* accounts counting as open.
OnOpenAccounts(m) == \A pos \in DOMAIN m : pos[1] \in open \/ Type(pos[1]) = "EQUITY"

(* C37: as long as the Balancer has not failed, and so after each Day it   *)
(* has processed, every key (a, k) of the running position map has an      *)
(* account that is open, equity accounts counting as open; the snapshot a  *)
(* Day was just pushed with holds no other key either.                     *)
C37_PositionsOnOpenAccounts ==
    /\ pc # "failed" => OnOpenAccounts(heap[amounts])
    /\ (pc = "pop" /\ resCh # <<>> /\ impl # "Balance") =>
          OnOpenAccounts(heap[resCh[Len(resCh)].Amounts])

\* A Day on which Assets:Cash received and paid out the same amount and
\* was closed: the account is closed and has no position, while the equity
\* account the postings went through keeps its position without ever
\* having been opened.
C37_Witness ==
    /\ impl = "Process2"
    /\ pc = "pop"
    /\ Len(resCh) = 1
    /\ resCh[1].Openings = <<[Account |-> Cash]>>
    /\ resCh[1].Closings = <<[Account |-> Cash]>>
    /\ resCh[1].Transactions # <<>>
    /\ open = {}
    /\ PositionsOf(heap[amounts], Cash) = {}
    /\ PositionsOf(heap[amounts], Opening) # {}

---------------------------------------------------------------------------
(* C38, as claimed: Transaction.Less returns for every pair of            *)
(* transactions.                                                          *)
C38_Original == <>(xin.pc = "returned")

---------------------------------------------------------------------------
(* C39: RecursiveParser.Parse closes its result channel at most once, and *)
(* only when the goroutine of the root file and the goroutines of all     *)
(* included files, at any depth, have ended and none is still to be       *)
(* started; nothing is sent on the channel once it is closed; under every *)
(* interleaving, with ctx cancelled at any moment or not at all.          *)
C39_ClosedAfterAll ==
    [][/\ xout'.closes <= 1
       /\ ~xout'.panicked
       /\ xout'.closed =>
            /\ xin'.wg = 0
            /\ \A f \in ParseFiles : xin'.g[f].pc \in {"idle", "done"}
            /\ xout'.sent = xout.sent
       /\ xout.closed => xin'.g = xin.g
      ]_vars

\* The channel is closed after three nested parsers ended, the innermost
\* with an error it pushed, and after ctx was cancelled.
C39_Witness ==
    /\ xout.closed
    /\ \A f \in ParseFiles : xin.g[f].pc = "done"
    /\ xin.files[3].ending = "error"
    /\ xin.files[1].ending = "EOF"
    /\ xout.sent >= 3
    /\ xin.ctx

---------------------------------------------------------------------------
(* C40, as claimed: in the format command no task sends on errCh once     *)
(* errCh is closed: the program never panics in the send of a task whose  *)
(* formatFile failed.                                                     *)
C40_Original ==
    ~(/\ fret.pc = "panicked"
      /\ errChClosed
      /\ \E i \in fails : tasks.bad[i] = "send")

====
